---------------------------- MODULE Spec2Model ----------------------------
(***************************************************************************)
(* A state-machine model of the animation core of libpag:                  *)
(*   - TextMotionPreset   (src/src/rendering/animation/TextMotionPreset.cpp)*)
(*   - PAGLayer           (src/src/rendering/layers/PAGLayer.cpp)           *)
(*   - SlideLeftPreset    (src/src/rendering/animation/SlideLeftPreset.cpp) *)
(*   - Transform2D setters (src/src/platform/web/PAGWasmBindings.cpp)       *)
(*                                                                         *)
(* The module holds several specifications, one per component; each one   *)
(* moves the variables of its component and leaves the others untouched.  *)
(*   SpecMotion         TextMotionPreset on a layer nobody else edits      *)
(*   SpecMotionForeign  the same, with other code editing the animators    *)
(*   SpecTimed          TextMotionPreset with durations and delays         *)
(*   SpecVersion        layer tree: content versions                       *)
(*   SpecAttach         layer tree: track mattes, lockers, stage           *)
(*   SpecFrame          local <-> global frame conversion                  *)
(*   SpecT2D            Transform2D setters and PAGLayer::setTransform2D   *)
(*   SpecT2DSet         setTransform2D with caller-built Transform2Ds      *)
(*   SpecSlide          SlideLeftPreset driving a PAGTextLayer             *)
(*   SpecLock           threads calling the accessors of one layer tree    *)
(*   SpecGlyph          SlideLeftGlyphProvider: progress and glyph offsets *)
(*   SpecRelock         LockGuard while the root locker is replaced        *)
(*   SpecCallpath       lock acquisitions along the call paths             *)
(*   SpecTimeline       the timeline setters and gotoTime                  *)
(*   SpecStepping       setStartTime, preFrame, nextFrame on one layer     *)
(***************************************************************************)
EXTENDS Integers, Sequences, FiniteSets, TLC

VARIABLES
  \* ---- TextMotionPreset and its TextLayer
  textDocument,   \* <<>> (getTextDocument() == nullptr) or <<glyph names>>
  animators,      \* layer->animators
  moreOption,     \* layer->moreOption: <<>> (nullptr) or <<record>>
  preset,         \* the TextMotionPreset object's fields
  motionLast,     \* history: the last operation and what it did
  motionLayer,      \* layer->startTime and layer->duration, in frames
  \* ---- the PAGLayer tree (0 is nullptr)
  parent,           \* PAGLayer::_parent
  trackMatteOwner,  \* PAGLayer::trackMatteOwner
  trackMatteLayer,  \* PAGLayer::_trackMatteLayer
  contentVersion,   \* PAGLayer::contentVersion
  rootLocker,       \* PAGLayer::rootLocker, the identity of the mutex
  stage,            \* PAGLayer::stage (0, or 1 for the stage)
  stageRefs,        \* the layers the stage holds a reference to
  treeLast,         \* history: the last operation and the state before it
  \* ---- frame conversion along a chain of timeline owners
  conv,             \* the chain, the frame converted and the results
  \* ---- Transform2D
  transform2d,      \* a Transform2D object held by the caller
  t2dLayer,         \* the PAGLayer: layer->transform and contentVersion
  t2dLast,          \* history: the last operation and the state before it
  \* ---- SlideLeftPreset and its PAGTextLayer
  slideLayer,       \* the PAGTextLayer
  slidePreset,      \* the SlideLeftPreset
  slideLast,        \* history: the last operation
  \* ---- threads calling into one layer tree
  pc,               \* per thread: where it is in its call
  lockHolder,       \* the thread that holds the tree's mutex, or 0
  shared,           \* the layer fields the threads read and write
  \* ---- SlideLeftGlyphProvider
  glyph,            \* the provider's fields and its last compute
  \* ---- threads calling into a layer whose rootLocker is replaced
  relock,           \* the layer's rootLocker, the mutexes, the threads
  \* ---- a thread's call path from a public entry point
  callpath,         \* the call stack and the tree lock's acquisitions
  \* ---- the layers' timelines (with the PAGLayer tree)
  timeline          \* per layer: frame rate, startFrame, contentFrame

motionVars == <<textDocument, animators, moreOption, preset, motionLast, motionLayer>>
treeVars == <<parent, trackMatteOwner, trackMatteLayer, contentVersion,
              rootLocker, stage, stageRefs, treeLast>>

frameVars == <<conv>>
t2dVars == <<transform2d, t2dLayer, t2dLast>>
slideVars == <<slideLayer, slidePreset, slideLast>>
lockVars == <<pc, lockHolder, shared>>

vars == <<motionVars, treeVars, frameVars, t2dVars, slideVars, lockVars,
          glyph, relock, callpath, timeline>>

notMotion == <<treeVars, frameVars, t2dVars, slideVars, lockVars,
  glyph, relock, callpath, timeline>>
notTree == <<motionVars, frameVars, t2dVars, slideVars, lockVars,
  glyph, relock, callpath, timeline>>
notFrame == <<motionVars, treeVars, t2dVars, slideVars, lockVars,
  glyph, relock, callpath, timeline>>
notT2D == <<motionVars, treeVars, frameVars, slideVars, lockVars,
  glyph, relock, callpath, timeline>>
notSlide == <<motionVars, treeVars, frameVars, t2dVars, lockVars,
  glyph, relock, callpath, timeline>>
notLock == <<motionVars, treeVars, frameVars, t2dVars, slideVars,
  glyph, relock, callpath, timeline>>
earlierVars == <<motionVars, treeVars, frameVars, t2dVars, slideVars, lockVars>>
notGlyph == <<earlierVars, relock, callpath, timeline>>
notRelock == <<earlierVars, glyph, callpath, timeline>>
notCallpath == <<earlierVars, glyph, relock, timeline>>
notTimeline == <<motionVars, frameVars, t2dVars, slideVars, lockVars, glyph, relock, callpath>>

(***************************************************************************)
(* Optional values (a pointer that may be nullptr) are sequences of length *)
(* at most one.                                                            *)
(***************************************************************************)
Null == <<>>
Some(x) == <<x>>
IsNull(p) == p = <<>>
Deref(p) == p[1]

Max(a, b) == IF a >= b THEN a ELSE b
Min(a, b) == IF a <= b THEN a ELSE b

MicrosPerSecond == 1000000

\* floor(time * frameRate / 1000000), time >= 0.
TimeToFrame(time, frameRate) == (time * frameRate) \div MicrosPerSecond

\* std::llround(n / d), d > 0: to the nearest integer, halves away from zero.
LLRound(n, d) ==
  IF n >= 0 THEN (2 * n + d) \div (2 * d) ELSE -((2 * (-n) + d) \div (2 * d))

(***************************************************************************)
(* The state of a component while another component's specification runs. *)
(***************************************************************************)
MotionIdle ==
  /\ textDocument = Null /\ animators = <<>> /\ moreOption = Null
  /\ preset = <<>> /\ motionLast = <<>> /\ motionLayer = <<>>

TreeIdle ==
  /\ parent = <<>> /\ trackMatteOwner = <<>> /\ trackMatteLayer = <<>>
  /\ contentVersion = <<>> /\ rootLocker = <<>> /\ stage = <<>>
  /\ stageRefs = {} /\ treeLast = <<>>

FrameIdle == conv = <<>>

T2DIdle == transform2d = <<>> /\ t2dLayer = <<>> /\ t2dLast = <<>>

SlideIdle == slideLayer = <<>> /\ slidePreset = <<>> /\ slideLast = <<>>

LockIdle == pc = <<>> /\ lockHolder = 0 /\ shared = <<>>

GlyphIdle == glyph = <<>>
RelockIdle == relock = <<>>
CallpathIdle == callpath = <<>>
TimelineIdle == timeline = <<>>
LaterIdle == GlyphIdle /\ RelockIdle /\ CallpathIdle /\ TimelineIdle

(***************************************************************************)
(*                      TextMotionPreset.cpp                               *)
(***************************************************************************)
MaxGlyphs == 3     \* longest glyph sequence of a text document
MaxBase == 1       \* animators on the layer before the preset is built
MaxApplies == 2    \* apply() calls in one behaviour
MaxForeign == 1    \* edits of the animator list by other code
MaxForeignGlyphs == 1  \* longest glyph sequence when other code edits the list

\* A glyph name is a sequence of characters.
GlyphNames == { <<>>, <<"\n">>, <<" ">>, <<"a">>, <<"a", "b">> }

\* std::isspace in the "C" locale.
IsSpace(c) == c \in {" ", "\t", "\n", "\r"}

Effects == {"None", "Letter", "Word"}
Groupings == {"Character", "Word", "Line", "All"}

IsWhitespaceGlyph(name) ==
  IF name = <<>> THEN FALSE
  ELSE IF name = <<"\n">> \/ name = <<"\r">> THEN TRUE
  ELSE IF Len(name) = 1 /\ IsSpace(name[1]) THEN TRUE
  ELSE FALSE

UnitRange(s, e) == [start |-> s, end |-> e]

\* The Letter loop of BuildRanges, from index i (1-based here, 0-based ranges).
RECURSIVE LetterLoop(_, _, _)
LetterLoop(glyphs, i, ranges) ==
  IF i > Len(glyphs) THEN ranges
  ELSE IF IsWhitespaceGlyph(glyphs[i]) THEN LetterLoop(glyphs, i + 1, ranges)
  ELSE LetterLoop(glyphs, i + 1, Append(ranges, UnitRange(i - 1, i)))

\* The Word loop of BuildRanges with its locals inWord and startIndex.
RECURSIVE WordLoop(_, _, _, _, _)
WordLoop(glyphs, i, inWord, startIndex, ranges) ==
  IF i > Len(glyphs)
  THEN IF inWord THEN Append(ranges, UnitRange(startIndex, Len(glyphs))) ELSE ranges
  ELSE IF IsWhitespaceGlyph(glyphs[i])
       THEN IF inWord
            THEN WordLoop(glyphs, i + 1, FALSE, startIndex,
                          Append(ranges, UnitRange(startIndex, i - 1)))
            ELSE WordLoop(glyphs, i + 1, inWord, startIndex, ranges)
       ELSE IF ~inWord
            THEN WordLoop(glyphs, i + 1, TRUE, i - 1, ranges)
            ELSE WordLoop(glyphs, i + 1, inWord, startIndex, ranges)

\* The switch of BuildRanges whose Letter case does not skip whitespace.
SegmentRangesEveryGlyph(effect, glyphs) ==
  CASE effect = "Letter" -> [ i \in 1..Len(glyphs) |-> UnitRange(i - 1, i) ]
    [] effect = "Word"   -> WordLoop(glyphs, 1, FALSE, 0, <<>>)
    [] OTHER             -> <<UnitRange(0, Len(glyphs))>>

SegmentRanges(effect, glyphs) ==
  CASE effect = "Letter" -> LetterLoop(glyphs, 1, <<>>)
    [] effect = "Word"   -> WordLoop(glyphs, 1, FALSE, 0, <<>>)
    [] OTHER             -> <<UnitRange(0, Len(glyphs))>>

\* BuildRanges without its closing guard: no fallback range when the
\* segmentation found none.
BuildRangesNoGuard(effect, glyphs) ==
  IF glyphs = <<>> THEN <<>> ELSE SegmentRanges(effect, glyphs)

\* BuildRanges whose fallback range covers the first glyph only.
BuildRangesUnitFallback(effect, glyphs) ==
  IF glyphs = <<>> THEN <<>>
  ELSE LET ranges == SegmentRanges(effect, glyphs)
       IN  IF ranges = <<>> THEN <<UnitRange(0, 1)>> ELSE ranges

BuildRanges(effect, glyphs) ==
  IF glyphs = <<>> THEN <<>>
  ELSE LET ranges == SegmentRanges(effect, glyphs)
       IN  IF ranges = <<>> THEN <<UnitRange(0, Len(glyphs))>> ELSE ranges

TargetGrouping(effect) ==
  IF effect = "Word" THEN "Word"
  ELSE IF effect = "None" THEN "All"
  ELSE "Character"

BasedOn(effect) == IF effect = "Word" THEN "Words" ELSE "Characters"

MoreOptions(grouping, alignment) ==
  [anchorPointGrouping |-> grouping, groupingAlignment |-> alignment]

Animator(owner, gen, s, e, basedOn) ==
  [ owner |-> owner, gen |-> gen, start |-> s, end |-> e, basedOn |-> basedOn,
    \* the keyframe of the animated property: <<startTime, endTime>>
    keyframe |-> <<0, 1>> ]

BaseAnimator == Animator("base", 0, 0, 0, "Characters")
ForeignAnimator == Animator("foreign", 0, 0, 0, "Characters")

\* TextMotionPreset::TextMotionPreset(textLayer, rate), layer != nullptr.
NewPreset(layerAnimators, layerMoreOption, rate) ==
  [ frameRate         |-> rate,
    baseAnimatorCount |-> Len(layerAnimators),
    originalGrouping  |-> IF ~IsNull(layerMoreOption)
                          THEN Deref(layerMoreOption).anchorPointGrouping
                          ELSE "Character",
    createdMoreOption |-> FALSE,
    alive             |-> TRUE,
    applyCount        |-> 0,
    \* history, not a field of the class: layer->moreOption at construction
    ctorMoreOption    |-> layerMoreOption ]

\* clear() forgetting to restore the grouping of a moreOption it did not create.
ClearMoreOptionKeepGrouping(p, mo) ==
  IF p.createdMoreOption THEN Null ELSE mo

\* The moreOption part of clear().
ClearMoreOption(p, mo) ==
  IF p.createdMoreOption THEN Null
  ELSE IF ~IsNull(mo)
       THEN Some([Deref(mo) EXCEPT !.anchorPointGrouping = p.originalGrouping])
       ELSE mo

\* while (animators.size() > baseAnimatorCount) { delete back; pop_back; }
ClearAnimators(p, anims) ==
  IF Len(anims) > p.baseAnimatorCount
  THEN SubSeq(anims, 1, p.baseAnimatorCount)
  ELSE anims

\* The animators clear() deletes (the popped tail).
PoppedAnimators(p, anims) ==
  IF Len(anims) > p.baseAnimatorCount
  THEN SubSeq(anims, p.baseAnimatorCount + 1, Len(anims))
  ELSE <<>>

Owners(s) == { s[i].owner : i \in 1..Len(s) }

\* The loop of apply() over the ranges: one animator per non-empty range.
\* offsetUS of range i (0-based) of n, as a fraction <<numerator, denominator>>:
\* delayUS * i, or ApplyEffectSmooth(effectSmooth, i / (n - 1)) * totalStaggerUS.
OffsetUS(options, i, n) ==
  LET delayUS == Max(0, options.effectDelay)
      m == n - 1
  IN  IF options.effect = "None" \/ n <= 1 THEN <<0, 1>>
      ELSE CASE options.effectSmooth = "None"    -> <<delayUS * i, 1>>
             [] options.effectSmooth = "Smooth"  -> <<i * i * (3 * m - 2 * i) * delayUS, m * m>>
             [] options.effectSmooth = "EaseIn"  -> <<i * i * delayUS, m>>
             [] OTHER                            -> <<(m * m - (m - i) * (m - i)) * delayUS, m>>

\* Lines 352-360: the frames of offsetUS and offsetUS + durationUS, the end
\* at least one frame past the start.
RawKeyframe(options, i, n) ==
  LET offsetUS == OffsetUS(options, i, n)
      durationUS == Max(0, options.duration)
      startFrame == motionLayer.startTime
                      + TimeToFrame(LLRound(offsetUS[1], offsetUS[2]), preset.frameRate)
      endFrame == motionLayer.startTime
                    + TimeToFrame(LLRound(offsetUS[1] + durationUS * offsetUS[2],
                                          offsetUS[2]),
                                  preset.frameRate)
  IN  << startFrame, IF endFrame <= startFrame THEN startFrame + 1 ELSE endFrame >>

\* The keyframe without the clamp to the layer's last frame.
KeyframeNoClamp(options, i, n) == RawKeyframe(options, i, n)

\* The keyframe whose end may fall on its start.
KeyframeNoMinimum(options, i, n) ==
  LET k == RawKeyframe(options, i, n)
      lastFrame == motionLayer.startTime + motionLayer.duration
  IN  << k[1], IF k[2] > lastFrame THEN lastFrame ELSE k[2] >>

\* <<startFrame, endFrame>> of the keyframe of range i (0-based) of n.
Keyframe(options, i, n) ==
  LET k == RawKeyframe(options, i, n)
      startFrame == k[1]
      endFrame == k[2]
      lastFrame == motionLayer.startTime + motionLayer.duration
  IN  IF endFrame > lastFrame
      THEN << startFrame,
              IF lastFrame <= startFrame THEN startFrame + 1 ELSE lastFrame >>
      ELSE << startFrame, endFrame >>

RECURSIVE ApplyLoop(_, _, _, _, _, _)
ApplyLoop(ranges, i, glyphCount, options, gen, anims) ==
  IF i > Len(ranges) THEN anims
  ELSE LET s == Min(ranges[i].start, glyphCount)
           e == Min(ranges[i].end, glyphCount)
       IN  IF s >= e
           THEN ApplyLoop(ranges, i + 1, glyphCount, options, gen, anims)
           ELSE ApplyLoop(ranges, i + 1, glyphCount, options, gen,
                          Append(anims,
                                 [ Animator("preset", gen, s, e, BasedOn(options.effect))
                                     EXCEPT !.keyframe =
                                       Keyframe(options, i - 1, Len(ranges)) ]))

\* The moreOption part of apply(): create it when missing, give it the
\* default grouping alignment, set the grouping of the effect.
ApplyMoreOption(mo, effect) ==
  IF IsNull(mo)
  THEN Some(MoreOptions(TargetGrouping(effect), "default"))
  ELSE Some([ anchorPointGrouping |-> TargetGrouping(effect),
              groupingAlignment  |-> IF Deref(mo).groupingAlignment = "null"
                                     THEN "default"
                                     ELSE Deref(mo).groupingAlignment ])

\* clear() as a function of the state: <<preset, moreOption, animators>>.
ClearedState(p, mo, anims) ==
  << [p EXCEPT !.createdMoreOption = FALSE],
     ClearMoreOption(p, mo),
     ClearAnimators(p, anims) >>

\* apply() without the leading clear().
ApplyStartNoClear(p, mo, anims) == <<p, mo, anims>>

\* apply() begins with clear().
ApplyStart(p, mo, anims) == ClearedState(p, mo, anims)

TextMotionPreset_clear ==
  /\ preset.alive
  /\ LET c == ClearedState(preset, moreOption, animators)
     IN  /\ preset' = c[1]
         /\ moreOption' = c[2]
         /\ animators' = c[3]
         /\ motionLast' = [ op |-> "clear", effect |-> "None", result |-> FALSE,
                            before |-> Len(animators),
                            deleted |-> Owners(PoppedAnimators(preset, animators)),
                            foreign |-> motionLast.foreign ]
  /\ UNCHANGED <<textDocument, motionLayer>>
  /\ UNCHANGED notMotion

TextMotionPreset_destroy ==
  /\ preset.alive
  /\ LET c == ClearedState(preset, moreOption, animators)
     IN  /\ preset' = [c[1] EXCEPT !.alive = FALSE]
         /\ moreOption' = c[2]
         /\ animators' = c[3]
         /\ motionLast' = [ op |-> "destroy", effect |-> "None", result |-> FALSE,
                            before |-> Len(animators),
                            deleted |-> Owners(PoppedAnimators(preset, animators)),
                            foreign |-> motionLast.foreign ]
  /\ UNCHANGED <<textDocument, motionLayer>>
  /\ UNCHANGED notMotion

TextMotionPreset_apply(options) ==
  /\ preset.alive
  /\ preset.applyCount < MaxApplies
  /\ LET c      == ApplyStart(preset, moreOption, animators)
         gen    == preset.applyCount + 1
         p1     == [c[1] EXCEPT !.applyCount = gen]
         del    == Len(animators) - Len(c[3])
         popped == IF del > 0
                   THEN SubSeq(animators, Len(animators) - del + 1, Len(animators))
                   ELSE <<>>
         last(res) == [ op |-> "apply", effect |-> options.effect, result |-> res,
                        before |-> Len(animators), deleted |-> Owners(popped),
                        foreign |-> motionLast.foreign ]
     IN  IF IsNull(textDocument) \/ Deref(textDocument) = <<>>
         THEN \* textData == nullptr, or no glyphs: return false after clear()
              /\ preset' = p1
              /\ moreOption' = c[2]
              /\ animators' = c[3]
              /\ motionLast' = last(FALSE)
         ELSE LET glyphs == Deref(textDocument)
                  ranges == BuildRanges(options.effect, glyphs)
                  anims  == ApplyLoop(ranges, 1, Len(glyphs), options, gen, c[3])
              IN  /\ preset' = [p1 EXCEPT !.createdMoreOption =
                                     IF IsNull(c[2]) THEN TRUE ELSE @]
                  /\ moreOption' = ApplyMoreOption(c[2], options.effect)
                  /\ animators' = anims
                  /\ motionLast' = last(Len(anims) > Len(c[3]))
  /\ UNCHANGED <<textDocument, motionLayer>>
  /\ UNCHANGED notMotion

\* Other code appends an animator of its own to layer->animators.
ForeignAppend ==
  /\ motionLast.foreign < MaxForeign
  /\ animators' = Append(animators, ForeignAnimator)
  /\ motionLast' = [ op |-> "foreignAppend", effect |-> "None", result |-> FALSE,
                     before |-> Len(animators), deleted |-> {},
                     foreign |-> motionLast.foreign + 1 ]
  /\ UNCHANGED <<textDocument, moreOption, preset, motionLayer>>
  /\ UNCHANGED notMotion

\* Other code removes an animator that is not the preset's.
ForeignRemove(i) ==
  /\ motionLast.foreign < MaxForeign
  /\ i \in 1..Len(animators)
  /\ animators[i].owner # "preset"
  /\ animators' = SubSeq(animators, 1, i - 1) \o SubSeq(animators, i + 1, Len(animators))
  /\ motionLast' = [ op |-> "foreignRemove", effect |-> "None", result |-> FALSE,
                     before |-> Len(animators), deleted |-> {},
                     foreign |-> motionLast.foreign + 1 ]
  /\ UNCHANGED <<textDocument, moreOption, preset, motionLayer>>
  /\ UNCHANGED notMotion

RECURSIVE SeqsUpTo(_, _)
SeqsUpTo(S, n) ==
  IF n = 0 THEN { <<>> }
  ELSE LET shorter == SeqsUpTo(S, n - 1)
       IN  shorter \cup { Append(s, x) : s \in shorter, x \in S }

\* The groupings a layer is built with here ("Line" is never an effect's).
InitGroupings == {"Character", "Line"}

InitLayer(maxLen) ==
  /\ textDocument \in {Null} \cup { Some(g) : g \in SeqsUpTo(GlyphNames, maxLen) }
  /\ animators \in { [i \in 1..n |-> BaseAnimator] : n \in 0..MaxBase }
  /\ moreOption \in {Null} \cup
       { Some(MoreOptions(g, a)) : g \in InitGroupings, a \in {"null", "set"} }
  /\ motionLayer = [startTime |-> 0, duration |-> 3]
  /\ preset = NewPreset(animators, moreOption, 60)
  /\ motionLast = [ op |-> "new", effect |-> "None", result |-> FALSE,
                    before |-> Len(animators), deleted |-> {}, foreign |-> 0 ]

\* Options with the default timing: duration 0, effectDelay 0, no smoothing.
Options ==
  [effect : Effects, duration : {0}, effectDelay : {0}, effectSmooth : {"None"}]

Motion_apply == \E o \in Options : TextMotionPreset_apply(o)
Motion_foreignRemove == \E i \in 1..(MaxBase + MaxForeign + MaxGlyphs) : ForeignRemove(i)

NextMotion ==
  \/ Motion_apply
  \/ TextMotionPreset_clear
  \/ TextMotionPreset_destroy

NextMotionForeign ==
  \/ Motion_apply
  \/ TextMotionPreset_clear
  \/ TextMotionPreset_destroy
  \/ ForeignAppend
  \/ Motion_foreignRemove

InitMotion ==
  InitLayer(MaxGlyphs) /\ TreeIdle /\ FrameIdle /\ T2DIdle /\ SlideIdle /\ LockIdle /\ LaterIdle
InitMotionForeign ==
  InitLayer(MaxForeignGlyphs) /\ TreeIdle /\ FrameIdle /\ T2DIdle /\ SlideIdle /\ LockIdle /\ LaterIdle

SpecMotion == InitMotion /\ [][NextMotion]_vars
SpecMotionForeign == InitMotionForeign /\ [][NextMotionForeign]_vars

\* Timed options on layers of several start times and durations.
TimedDocuments ==
  { << <<" ">> >>, << <<"a">>, <<"b">> >>, << <<"a">>, <<" ">>, <<"b">> >>,
    << <<"a">>, <<"b">>, <<"a">> >> }

TimedOptions ==
  [ effect : Effects, duration : {0, 50000}, effectDelay : {0, 50000},
    effectSmooth : {"None", "Smooth", "EaseOut"} ]

InitTimed ==
  /\ textDocument \in { Some(g) : g \in TimedDocuments }
  /\ animators = <<>>
  /\ moreOption = Null
  /\ motionLayer \in [startTime : {0, 2}, duration : {0, 1, 3}]
  /\ \E rate \in {30, 60} : preset = NewPreset(animators, moreOption, rate)
  /\ motionLast = [ op |-> "new", effect |-> "None", result |-> FALSE,
                    before |-> 0, deleted |-> {}, foreign |-> 0 ]
  /\ TreeIdle /\ FrameIdle /\ T2DIdle /\ SlideIdle /\ LockIdle /\ LaterIdle

Motion_applyTimed == \E o \in TimedOptions : TextMotionPreset_apply(o)

NextTimed ==
  \/ Motion_applyTimed
  \/ TextMotionPreset_clear

SpecTimed == InitTimed /\ [][NextTimed]_vars


(***************************************************************************)
(*                  Claims about TextMotionPreset                          *)
(***************************************************************************)
RangesGeneratedFor(effect) ==
  IF IsNull(textDocument) THEN 0
  ELSE Len(BuildRanges(effect, Deref(textDocument)))

\* C2: on a layer nothing else modifies, after the last apply(optionsB) the
\* animator count is baseAnimatorCount plus the number of ranges generated
\* for optionsB, the first baseAnimatorCount animators are the layer's own
\* and every other one was created by this last apply (none of an earlier
\* apply remains).
C2_ApplyIdempotent ==
  motionLast.op = "apply" =>
    /\ Len(animators) = preset.baseAnimatorCount + RangesGeneratedFor(motionLast.effect)
    /\ \A i \in 1..Len(animators) :
         IF i <= preset.baseAnimatorCount
         THEN animators[i].owner = "base"
         ELSE animators[i].owner = "preset" /\ animators[i].gen = preset.applyCount

\* A second apply that found animators of the first one and ends with a
\* different number of them.
C2_Witness ==
  /\ motionLast.op = "apply"
  /\ preset.applyCount >= 2
  /\ motionLast.before > preset.baseAnimatorCount
  /\ Len(animators) > preset.baseAnimatorCount
  /\ Len(animators) # motionLast.before

\* C3: after any sequence of apply calls followed by clear() (or by the
\* destructor), the layer has exactly baseAnimatorCount animators and its
\* anchor-point grouping state is the one at construction: moreOption is
\* null again if it was null, and otherwise its anchorPointGrouping is the
\* original one.
C3_ClearRestores ==
  motionLast.op \in {"clear", "destroy"} =>
    /\ Len(animators) = preset.baseAnimatorCount
    /\ IF IsNull(preset.ctorMoreOption)
       THEN IsNull(moreOption)
       ELSE /\ ~IsNull(moreOption)
            /\ Deref(moreOption).anchorPointGrouping =
                 Deref(preset.ctorMoreOption).anchorPointGrouping

\* clear() after an apply that had added animators and had switched the
\* grouping of a moreOption the layer already had away from "Line".
C3_Witness ==
  /\ motionLast.op = "clear"
  /\ preset.applyCount >= 1
  /\ motionLast.before > preset.baseAnimatorCount
  /\ ~IsNull(preset.ctorMoreOption)
  /\ Deref(preset.ctorMoreOption).anchorPointGrouping = "Line"

\* C4: clear(), re-apply and destruction remove exactly the animators this
\* preset added: they delete no animator of other code (or of the layer),
\* and after them no animator the preset created earlier survives.
C4_RemovesExactlyOwn ==
  /\ motionLast.deleted \subseteq {"preset"}
  /\ motionLast.op \in {"clear", "destroy"} =>
       \A i \in 1..Len(animators) : animators[i].owner # "preset"
  /\ motionLast.op = "apply" =>
       \A i \in 1..Len(animators) :
         animators[i].owner = "preset" => animators[i].gen = preset.applyCount

\* The keyframes of the animators the preset created.
PresetKeyframes ==
  { animators[i].keyframe :
      i \in { j \in 1..Len(animators) : animators[j].owner = "preset" } }

LastFrame == motionLayer.startTime + motionLayer.duration

\* C22: the keyframe of every animator apply() created ends at least one
\* frame after it starts, whatever the duration, the delay and the layer.
C22_EndPastStart ==
  \A k \in PresetKeyframes : k[2] >= k[1] + 1

\* A staggered animator of zero duration inside the layer: its keyframe
\* starts after the layer's start and is one frame long.
C22_Witness ==
  /\ motionLast.op = "apply"
  /\ \E k \in PresetKeyframes :
       /\ k[1] > motionLayer.startTime
       /\ k[2] = k[1] + 1
       /\ k[2] <= LastFrame

\* C23 as stated: no keyframe ends after the layer's last frame
\* startTime + duration, also when its start is at or beyond that frame.
C23_EndWithinLayer ==
  \A k \in PresetKeyframes : k[2] <= LastFrame

\* C23 amended: a keyframe that starts before the layer's last frame does
\* not end after it; a keyframe that starts at or beyond the last frame is
\* one frame long, so it ends past the layer's end.
C23_EndWithinLayerIfStartIs ==
  \A k \in PresetKeyframes :
    IF k[1] < LastFrame THEN k[2] <= LastFrame ELSE k[2] = k[1] + 1

\* On a layer of three frames, one keyframe was cut at the last frame and
\* a staggered one starts at it and ends one frame beyond.
C23_Witness ==
  /\ motionLast.op = "apply"
  /\ motionLayer.duration = 3
  /\ \E k \in PresetKeyframes : k[1] < LastFrame /\ k[2] = LastFrame
  /\ \E k \in PresetKeyframes : k[1] >= LastFrame /\ k[2] = k[1] + 1

\* The text document exists, has glyphs, and every glyph is whitespace.
AllWhitespace ==
  /\ ~IsNull(textDocument)
  /\ Deref(textDocument) # <<>>
  /\ \A i \in 1..Len(Deref(textDocument)) :
       IsWhitespaceGlyph(Deref(textDocument)[i])

\* C14 as stated: apply() on an all-whitespace document returns false and
\* leaves the animator count at baseAnimatorCount, whatever the grouping.
C14_WhitespaceCreatesNothing ==
  (motionLast.op = "apply" /\ AllWhitespace) =>
    /\ ~motionLast.result
    /\ Len(animators) = preset.baseAnimatorCount

\* C14 amended: apply() on an all-whitespace document with at least one
\* glyph returns true and adds exactly one animator, spanning the whole
\* glyph range, for every grouping (the guard that closes BuildRanges);
\* it returns false with the count at baseAnimatorCount only when the
\* document is missing or has no glyph.
C14_WhitespaceAnimatesWholeText ==
  /\ (motionLast.op = "apply" /\ AllWhitespace) =>
       /\ motionLast.result
       /\ Len(animators) = preset.baseAnimatorCount + 1
       /\ animators[Len(animators)].owner = "preset"
       /\ animators[Len(animators)].start = 0
       /\ animators[Len(animators)].end = Len(Deref(textDocument))
  /\ (motionLast.op = "apply"
        /\ (IsNull(textDocument) \/ Deref(textDocument) = <<>>)) =>
       /\ ~motionLast.result
       /\ Len(animators) = preset.baseAnimatorCount

\* apply() with the Letter grouping has run on a document of two
\* whitespace glyphs.
C14_Witness ==
  /\ motionLast.op = "apply"
  /\ motionLast.effect = "Letter"
  /\ AllWhitespace
  /\ Len(Deref(textDocument)) = 2
  /\ motionLast.result

\* The indices of the animators the preset created.
PresetAnimators ==
  { i \in 1..Len(animators) : animators[i].owner = "preset" }

HasGlyphs == ~IsNull(textDocument) /\ Deref(textDocument) # <<>>

\* C24: apply() on a document with at least one glyph never ends with no
\* animator of its own; under Letter or Word on glyphs that are all
\* whitespace it creates exactly one animator, spanning [0, glyphCount).
C24_NeverZeroRanges ==
  (motionLast.op = "apply" /\ HasGlyphs) =>
    /\ motionLast.result
    /\ PresetAnimators # {}
    /\ (AllWhitespace /\ motionLast.effect \in {"Letter", "Word"}) =>
         /\ Cardinality(PresetAnimators) = 1
         /\ \A i \in PresetAnimators :
              /\ animators[i].start = 0
              /\ animators[i].end = Len(Deref(textDocument))

\* apply() with the Word grouping has run on two whitespace glyphs and
\* left one animator of the preset.
C24_Witness ==
  /\ motionLast.op = "apply"
  /\ motionLast.effect = "Word"
  /\ AllWhitespace
  /\ Len(Deref(textDocument)) = 2
  /\ Cardinality(PresetAnimators) = 1


\* The glyph at 0-based index i of the document is not whitespace.
Inked(i) == ~IsWhitespaceGlyph(Deref(textDocument)[i + 1])

HasInkedGlyph ==
  HasGlyphs /\ \E i \in 0..(Len(Deref(textDocument)) - 1) : Inked(i)

\* The ranges [start, end) of the animators the preset created.
PresetRanges == { <<animators[i].start, animators[i].end>> : i \in PresetAnimators }

\* The maximal runs of consecutive non-whitespace glyphs.
InkedRuns ==
  LET n == Len(Deref(textDocument))
  IN  { r \in (0..n) \X (0..n) :
          /\ r[1] < r[2]
          /\ \A i \in r[1]..(r[2] - 1) : Inked(i)
          /\ (r[1] = 0 \/ ~Inked(r[1] - 1))
          /\ (r[2] = n \/ ~Inked(r[2])) }

\* C25: on n glyphs of which at least one is not whitespace, None gives
\* the one range [0, n), Letter one range of length 1 per non-whitespace
\* glyph, Word the maximal runs of non-whitespace glyphs; the ranges are
\* non-empty, ascending, pairwise disjoint and inside [0, n), and under
\* Letter and Word none contains a whitespace glyph.
C25_Segmentation ==
  (motionLast.op = "apply" /\ HasInkedGlyph) =>
    LET n == Len(Deref(textDocument))
    IN  /\ Cardinality(PresetRanges) = Cardinality(PresetAnimators)
        /\ motionLast.effect = "None" => PresetRanges = { <<0, n>> }
        /\ motionLast.effect = "Letter" =>
             PresetRanges = { <<i, i + 1>> : i \in { j \in 0..(n - 1) : Inked(j) } }
        /\ motionLast.effect = "Word" => PresetRanges = InkedRuns
        /\ \A i \in PresetAnimators :
             /\ 0 <= animators[i].start
             /\ animators[i].start < animators[i].end
             /\ animators[i].end <= n
             /\ motionLast.effect \in {"Letter", "Word"} =>
                  \A g \in animators[i].start..(animators[i].end - 1) : Inked(g)
        /\ \A i, j \in PresetAnimators :
             i < j => animators[i].end <= animators[j].start

\* apply() with the Word grouping has run on a word, a space and a word,
\* and with the Letter grouping on a document with whitespace in it.
C25_Witness ==
  /\ motionLast.op = "apply"
  /\ HasInkedGlyph
  /\ Len(Deref(textDocument)) = 3
  /\ ~Inked(1)
  /\ motionLast.effect = "Word"
  /\ PresetRanges = { <<0, 1>>, <<2, 3>> }


(***************************************************************************)
(*   PAGLayer.cpp: content versions, track mattes, root lockers, stage     *)
(***************************************************************************)
NumLayers == 3     \* layers of the forest
MaxNotifies == 2   \* notifyModified calls in one behaviour
MaxTreeOps == 2    \* attach / detach / remove calls in one behaviour

Layers == 1..NumLayers

\* getParentOrOwner with the track-matte owner forgotten.
GetParentOnly(l) == parent[l]

GetParentOrOwner(l) ==
  IF parent[l] # 0 THEN parent[l]
  ELSE IF trackMatteOwner[l] # 0 THEN trackMatteOwner[l]
  ELSE 0

\* The while loop of notifyModified, from parentLayer on.
RECURSIVE NotifyWalk(_, _)
NotifyWalk(parentLayer, cv) ==
  IF parentLayer = 0 THEN cv
  ELSE NotifyWalk(GetParentOrOwner(parentLayer), [cv EXCEPT ![parentLayer] = @ + 1])

NotifyModifiedVersions(l, contentChanged, cv) ==
  NotifyWalk(GetParentOrOwner(l), IF contentChanged THEN [cv EXCEPT ![l] = @ + 1] ELSE cv)

TreeRecord(op, l, arg) ==
  [ op |-> op, layer |-> l, arg |-> arg, before |-> contentVersion,
    lockersBefore |-> { rootLocker[k] : k \in Layers },
    notifies |-> treeLast.notifies + (IF op = "notifyModified" THEN 1 ELSE 0),
    treeOps |-> treeLast.treeOps + (IF op = "notifyModified" THEN 0 ELSE 1) ]

PAGLayer_notifyModified(l, contentChanged) ==
  /\ treeLast.notifies < MaxNotifies
  /\ contentVersion' = NotifyModifiedVersions(l, contentChanged, contentVersion)
  /\ treeLast' = TreeRecord("notifyModified", l, contentChanged)
  /\ UNCHANGED <<parent, trackMatteOwner, trackMatteLayer, rootLocker, stage, stageRefs>>
  /\ UNCHANGED notTree

\* updateRootLocker that does not descend into the track matte.
UpdateRootLockerShallow(l, newLocker, rl) == [rl EXCEPT ![l] = newLocker]

RECURSIVE UpdateRootLocker(_, _, _)
UpdateRootLocker(l, newLocker, rl) ==
  LET below == IF trackMatteLayer[l] # 0
               THEN UpdateRootLocker(trackMatteLayer[l], newLocker, rl)
               ELSE rl
  IN  [below EXCEPT ![l] = newLocker]

\* onAddToStage: <<stage, stageRefs>> after it.
RECURSIVE OnAddToStage(_, _, _)
OnAddToStage(l, pagStage, st) ==
  LET here == << [st[1] EXCEPT ![l] = pagStage], st[2] \cup {l} >>
  IN  IF trackMatteLayer[l] # 0 THEN OnAddToStage(trackMatteLayer[l], pagStage, here)
      ELSE here

\* onRemoveFromStage: <<stage, stageRefs>> after it.
RECURSIVE OnRemoveFromStage(_, _)
OnRemoveFromStage(l, st) ==
  LET here == << [st[1] EXCEPT ![l] = 0], st[2] \ {l} >>
  IN  IF trackMatteLayer[l] # 0 THEN OnRemoveFromStage(trackMatteLayer[l], here)
      ELSE here

\* std::make_shared<std::mutex>(): a mutex no layer references.
FreshLocker == 1 + Max(NumLayers, CHOOSE m \in { rootLocker[k] : k \in Layers } :
                                    \A k \in Layers : rootLocker[k] <= m)

\* detachFromTree: <<rootLocker, stage, stageRefs>> after it.
DetachedState(l) ==
  LET st == IF stage[l] # 0 THEN OnRemoveFromStage(l, <<stage, stageRefs>>)
            ELSE <<stage, stageRefs>>
  IN  << UpdateRootLocker(l, FreshLocker, rootLocker), st[1], st[2] >>

\* attachToTree(newLocker, newStage), called for a layer that has just been
\* taken from its parent or owner.
PAGLayer_attachToTree(l, newLocker, newStage) ==
  /\ treeLast.treeOps < MaxTreeOps
  /\ trackMatteOwner[l] = 0
  /\ rootLocker' = UpdateRootLocker(l, newLocker, rootLocker)
  /\ LET st == IF newStage # 0 THEN OnAddToStage(l, newStage, <<stage, stageRefs>>)
               ELSE <<stage, stageRefs>>
     IN  stage' = st[1] /\ stageRefs' = st[2]
  /\ treeLast' = TreeRecord("attachToTree", l, newLocker)
  /\ UNCHANGED <<parent, trackMatteOwner, trackMatteLayer, contentVersion>>
  /\ UNCHANGED notTree

PAGLayer_detachFromTree(l) ==
  /\ treeLast.treeOps < MaxTreeOps
  /\ trackMatteOwner[l] = 0
  /\ LET d == DetachedState(l)
     IN  rootLocker' = d[1] /\ stage' = d[2] /\ stageRefs' = d[3]
  /\ treeLast' = TreeRecord("detachFromTree", l, 0)
  /\ UNCHANGED <<parent, trackMatteOwner, trackMatteLayer, contentVersion>>
  /\ UNCHANGED notTree

\* removeFromParentOrOwner of a track-matte layer: detach, then unlink.
PAGLayer_removeFromParentOrOwner(l) ==
  /\ treeLast.treeOps < MaxTreeOps
  /\ parent[l] = 0
  /\ trackMatteOwner[l] # 0
  /\ LET d == DetachedState(l)
     IN  rootLocker' = d[1] /\ stage' = d[2] /\ stageRefs' = d[3]
  /\ trackMatteLayer' = [trackMatteLayer EXCEPT ![trackMatteOwner[l]] = 0]
  /\ trackMatteOwner' = [trackMatteOwner EXCEPT ![l] = 0]
  /\ treeLast' = TreeRecord("removeFromParentOrOwner", l, 0)
  /\ UNCHANGED <<parent, contentVersion>>
  /\ UNCHANGED notTree

\* l and the layers above it: its parent or its track-matte owner, theirs,
\* and so on, at most n layers high.
RECURSIVE UpChain(_, _)
UpChain(l, n) ==
  IF l = 0 \/ n = 0 THEN {}
  ELSE {l} \cup UpChain(parent[l], n - 1) \cup UpChain(trackMatteOwner[l], n - 1)

IsRoot(l) == parent[l] = 0 /\ trackMatteOwner[l] = 0

\* The root of l's tree; lock and stage are shared per tree.
RootOf(l) == CHOOSE r \in UpChain(l, NumLayers) : IsRoot(r)

\* A forest: a layer has a parent or a track-matte owner, never both; an
\* owner has one matte; no cycle.  With withParents = FALSE no layer is a
\* composition.
InitForest(withParents) ==
  /\ parent \in [Layers -> 0..NumLayers]
  /\ trackMatteOwner \in [Layers -> 0..NumLayers]
  /\ withParents \/ \A l \in Layers : parent[l] = 0
  /\ \A l \in Layers : parent[l] = 0 \/ trackMatteOwner[l] = 0
  /\ \A l, k \in Layers :
       (l # k /\ trackMatteOwner[l] # 0) => trackMatteOwner[l] # trackMatteOwner[k]
  /\ \A l \in Layers : \E r \in UpChain(l, NumLayers) : IsRoot(r)
  /\ trackMatteLayer = [o \in Layers |->
       IF \E l \in Layers : trackMatteOwner[l] = o
       THEN CHOOSE l \in Layers : trackMatteOwner[l] = o
       ELSE 0]
  /\ contentVersion = [l \in Layers |-> 0]
  /\ rootLocker = [l \in Layers |-> RootOf(l)]
  /\ \E onStage \in SUBSET { l \in Layers : IsRoot(l) } :
       /\ stage = [l \in Layers |-> IF RootOf(l) \in onStage THEN 1 ELSE 0]
       /\ stageRefs = { l \in Layers : RootOf(l) \in onStage }
  /\ treeLast = [ op |-> "new", layer |-> 0, arg |-> 0, before |-> contentVersion,
                  lockersBefore |-> { rootLocker[k] : k \in Layers },
                  notifies |-> 0, treeOps |-> 0 ]

InitVersion ==
  InitForest(TRUE) /\ MotionIdle /\ FrameIdle /\ T2DIdle /\ SlideIdle /\ LockIdle /\ LaterIdle
InitAttach ==
  InitForest(FALSE) /\ MotionIdle /\ FrameIdle /\ T2DIdle /\ SlideIdle /\ LockIdle /\ LaterIdle

NextVersion ==
  \E l \in Layers, contentChanged \in BOOLEAN : PAGLayer_notifyModified(l, contentChanged)

Attach_attachToTree ==
  \E l \in Layers, newLocker \in { rootLocker[k] : k \in Layers }, newStage \in {0, 1} :
    PAGLayer_attachToTree(l, newLocker, newStage)
Attach_detachFromTree == \E l \in Layers : PAGLayer_detachFromTree(l)
Attach_removeFromParentOrOwner == \E l \in Layers : PAGLayer_removeFromParentOrOwner(l)

NextAttach ==
  \/ Attach_attachToTree
  \/ Attach_detachFromTree
  \/ Attach_removeFromParentOrOwner

SpecVersion == InitVersion /\ [][NextVersion]_vars
SpecAttach == InitAttach /\ [][NextAttach]_vars

(***************************************************************************)
(*                  Claims about the layer tree                            *)
(***************************************************************************)
\* The layer and every layer on its parent-or-track-matte-owner chain.
OwnerChain(l) == UpChain(l, NumLayers)

\* C5: notifyModified(true) adds exactly 1 to the contentVersion of the layer
\* and of every layer on its parent-or-track-matte-owner chain up to the
\* root, and changes no other layer's; and no operation lowers a
\* contentVersion.
C5_NotifyModified ==
  /\ \A k \in Layers : contentVersion[k] >= treeLast.before[k]
  /\ (treeLast.op = "notifyModified" /\ treeLast.arg = TRUE) =>
       \A k \in Layers :
         contentVersion[k] = treeLast.before[k] +
                             (IF k \in OwnerChain(treeLast.layer) THEN 1 ELSE 0)

\* notifyModified(true) on a track-matte layer whose owner has a parent.
C5_Witness ==
  /\ treeLast.op = "notifyModified" /\ treeLast.arg = TRUE
  /\ trackMatteOwner[treeLast.layer] # 0
  /\ parent[trackMatteOwner[treeLast.layer]] # 0
  /\ contentVersion[parent[trackMatteOwner[treeLast.layer]]] = 2

\* The layer and the track-matte layers attached below it.
RECURSIVE MatteSubtree(_)
MatteSubtree(l) ==
  IF l = 0 THEN {} ELSE {l} \cup MatteSubtree(trackMatteLayer[l])

\* C7: a layer and its attached track-matte layer always reference the same
\* lock (and stage); after detachFromTree the layer references a fresh lock,
\* distinct from every lock referenced before and shared by exactly the
\* layer and its track-matte subtree, and none of them is registered with
\* the stage; after attachToTree(locker, stage) the layer and its whole
\* track-matte subtree reference the given locker.
C7_LockerFollowsMatte ==
  /\ \A l \in Layers :
       trackMatteLayer[l] # 0 =>
         /\ rootLocker[l] = rootLocker[trackMatteLayer[l]]
         /\ stage[l] = stage[trackMatteLayer[l]]
  /\ treeLast.op \in {"detachFromTree", "removeFromParentOrOwner"} =>
       LET l == treeLast.layer
       IN  /\ rootLocker[l] \notin treeLast.lockersBefore
           /\ { k \in Layers : rootLocker[k] = rootLocker[l] } = MatteSubtree(l)
           /\ \A k \in MatteSubtree(l) : stage[k] = 0 /\ k \notin stageRefs
  /\ treeLast.op = "attachToTree" =>
       \A k \in MatteSubtree(treeLast.layer) : rootLocker[k] = treeLast.arg

\* A layer with a track matte, registered with the stage, has been detached.
C7_Witness ==
  /\ treeLast.op = "detachFromTree"
  /\ trackMatteLayer[treeLast.layer] # 0
  /\ treeLast.treeOps = 1
  /\ Cardinality(stageRefs) < NumLayers - 1
  /\ \E k \in Layers : stage[k] # 0


(***************************************************************************)
(*        PAGLayer: frame conversion along the timeline-owner chain        *)
(*                                                                         *)
(* conv.chain[1] is the layer, conv.chain[i + 1] the timeline owner of     *)
(* conv.chain[i] (getTimelineOwner); each has a frame rate                 *)
(* (frameRateInternal) and a startFrame.                                   *)
(***************************************************************************)
MaxOwners == 2     \* timeline owners above the layer
MaxFrame == 4      \* the layer's frames are 0..MaxFrame

FrameRates == {24, 60}
StartFrames == {-1, 0, 2}

TruncF(n, d) == IF n >= 0 THEN n \div d ELSE -((-n) \div d)

\* roundf(n / d), d > 0: to the nearest integer, halves away from zero.  The
\* float timeScale is 1, 5/2 or 2/5 here; 2/5 is not a float, but k * 2/5 is
\* never within 1/10 of a half, so the float product rounds as the fraction.
RoundF(n, d) ==
  IF n >= 0 THEN (2 * n + d) \div (2 * d) ELSE -((2 * (-n) + d) \div (2 * d))

\* localFrameToChild that scales first and subtracts the startFrame after.
LocalFrameToChildScaleFirst(owner, localFrame, childFrameRate) ==
  RoundF(localFrame * childFrameRate, owner.frameRate) - owner.startFrame

\* timeScale = childFrameRate / frameRateInternal()
LocalFrameToChild(owner, localFrame, childFrameRate) ==
  RoundF((localFrame - owner.startFrame) * childFrameRate, owner.frameRate)

\* timeScale = frameRateInternal() / childFrameRate
ChildFrameToLocal(owner, childFrame, childFrameRate) ==
  RoundF(childFrame * owner.frameRate, childFrameRate) + owner.startFrame

\* localFrameToGlobal, the loop standing at owner chain[i].
RECURSIVE GlobalLoop(_, _, _)
GlobalLoop(chain, i, localFrame) ==
  IF i > Len(chain) THEN localFrame
  ELSE GlobalLoop(chain, i + 1,
                  ChildFrameToLocal(chain[i], localFrame, chain[i - 1].frameRate))

LocalFrameToGlobal(chain, localFrame) == GlobalLoop(chain, 2, localFrame)

\* globalToLocalFrame, the loop standing at owner chain[i], outermost first.
RECURSIVE LocalLoop(_, _, _)
LocalLoop(chain, i, globalFrame) ==
  IF i < 2 THEN globalFrame
  ELSE LocalLoop(chain, i - 1,
                 LocalFrameToChild(chain[i], globalFrame, chain[i - 1].frameRate))

GlobalToLocalFrame(chain, globalFrame) == LocalLoop(chain, Len(chain), globalFrame)

Timelines == [frameRate : FrameRates, startFrame : StartFrames]

InitFrame ==
  /\ \E n \in 2..(MaxOwners + 1) : \E chain \in [1..n -> Timelines] :
     \E f \in 0..MaxFrame :
       /\ conv = [ chain |-> chain, f |-> f, global |-> 0, back |-> 0, phase |-> "new" ]
  /\ MotionIdle /\ TreeIdle /\ T2DIdle /\ SlideIdle /\ LockIdle /\ LaterIdle

PAGLayer_localFrameToGlobal ==
  /\ conv.phase = "new"
  /\ conv' = [conv EXCEPT !.global = LocalFrameToGlobal(conv.chain, conv.f),
                          !.phase = "global"]
  /\ UNCHANGED notFrame

PAGLayer_globalToLocalFrame ==
  /\ conv.phase = "global"
  /\ conv' = [conv EXCEPT !.back = GlobalToLocalFrame(conv.chain, conv.global),
                          !.phase = "back"]
  /\ UNCHANGED notFrame

NextFrame ==
  \/ PAGLayer_localFrameToGlobal
  \/ PAGLayer_globalToLocalFrame

SpecFrame == InitFrame /\ [][NextFrame]_vars

(***************************************************************************)
(*                  Claims about frame conversion                          *)
(***************************************************************************)
ChainRates == { conv.chain[i].frameRate : i \in 1..Len(conv.chain) }

\* No step up the chain goes to a lower frame rate.
RatesRiseOutwards ==
  \A i \in 2..Len(conv.chain) : conv.chain[i].frameRate >= conv.chain[i - 1].frameRate

\* C6 as stated: in a chain whose frame rates are 24 and 60, whichever is the
\* outer one, globalToLocalFrame(localFrameToGlobal(f)) = f for every frame
\* f of the layer and any startFrame of the owners.
C6_RoundTripEitherAssignment ==
  (conv.phase = "back" /\ ChainRates = {24, 60}) => conv.back = conv.f

\* C6, amended: globalToLocalFrame(localFrameToGlobal(f)) = f for every
\* frame f of the layer and any startFrame of the owners when the chain's
\* frame rates are 24 and 60 and no owner has a lower rate than the timeline
\* below it (24 inside 60).
C6_RoundTripRisingRates ==
  (conv.phase = "back" /\ ChainRates = {24, 60} /\ RatesRiseOutwards) =>
    conv.back = conv.f

\* An odd frame of a 24 fps layer went through a 60 fps owner with a
\* non-zero startFrame and came back.
C6_Witness ==
  /\ conv.phase = "back"
  /\ ChainRates = {24, 60} /\ RatesRiseOutwards
  /\ conv.f = 3
  /\ \E i \in 2..Len(conv.chain) :
       conv.chain[i].frameRate = 60 /\ conv.chain[i].startFrame # 0
  /\ conv.global # conv.f
  /\ conv.back = conv.f

\* Root to leaf, each step taking off the startFrame of the layer descended
\* into (chain[i - 1]) after scaling to its frame rate.
RECURSIVE ChildStartAfterScale(_, _, _)
ChildStartAfterScale(chain, i, frame) ==
  IF i < 2 THEN frame
  ELSE ChildStartAfterScale(chain, i - 1,
         RoundF(frame * chain[i - 1].frameRate, chain[i].frameRate)
           - chain[i - 1].startFrame)

\* The same with the child's startFrame taken off before scaling.
RECURSIVE ChildStartBeforeScale(_, _, _)
ChildStartBeforeScale(chain, i, frame) ==
  IF i < 2 THEN frame
  ELSE ChildStartBeforeScale(chain, i - 1,
         RoundF((frame - chain[i - 1].startFrame) * chain[i - 1].frameRate,
                chain[i].frameRate))

\* Root to leaf, each step taking off the startFrame of the owner descended
\* from (chain[i]) and then scaling to the frame rate of the layer below.
RECURSIVE OwnerStartBeforeScale(_, _, _)
OwnerStartBeforeScale(chain, i, frame) ==
  IF i < 2 THEN frame
  ELSE OwnerStartBeforeScale(chain, i - 1,
         RoundF((frame - chain[i].startFrame) * chain[i - 1].frameRate,
                chain[i].frameRate))

\* C21 as stated: globalToLocalFrame goes down the chain root to leaf, each
\* step scaling by the child's frame rate over the owner's and subtracting
\* the startFrame of the layer descended into, the queried layer's own
\* startFrame in the last step (in either order of scaling and subtracting).
C21_SubtractsChildStart ==
  conv.phase = "back" =>
    \/ conv.back = ChildStartAfterScale(conv.chain, Len(conv.chain), conv.global)
    \/ conv.back = ChildStartBeforeScale(conv.chain, Len(conv.chain), conv.global)

\* C21 amended: globalToLocalFrame goes down the chain root to leaf, each
\* step subtracting the startFrame of the owner descended from and then
\* scaling by the child's frame rate over the owner's; the queried layer's
\* own startFrame is not subtracted at all.
C21_SubtractsOwnerStart ==
  conv.phase = "back" =>
    /\ conv.back = OwnerStartBeforeScale(conv.chain, Len(conv.chain), conv.global)
    /\ conv.back = OwnerStartBeforeScale([conv.chain EXCEPT ![1].startFrame = 0],
                                         Len(conv.chain), conv.global)

\* A chain of two owners with different start frames above a layer whose
\* own startFrame is not 0: the result is neither reading of the statement.
C21_Witness ==
  /\ conv.phase = "back"
  /\ Len(conv.chain) = 3
  /\ conv.chain[1].startFrame = 2
  /\ conv.chain[2].startFrame # conv.chain[3].startFrame
  /\ conv.back # ChildStartAfterScale(conv.chain, Len(conv.chain), conv.global)
  /\ conv.back # ChildStartBeforeScale(conv.chain, Len(conv.chain), conv.global)


(***************************************************************************)
(*   Transform2D: PAGLayer::getTransform2D / setTransform2D and the        *)
(*   setters of PAGWasmBindings.cpp                                        *)
(*                                                                         *)
(* A Transform2D is the record of its seven properties.  A static property *)
(* is [value, animatable]; an animatable one has its keyframes as well.    *)
(* A Point value is <<x, y>>.                                              *)
(***************************************************************************)
MaxT2DOps == 3     \* calls in one behaviour

Coords == {0, 1}
Points == Coords \X Coords

Property(v) == [ value |-> v, animatable |-> FALSE ]

Opaque == 255

\* Keyframe<T>: the value runs from startValue at frame startTime to
\* endValue at frame endTime.
KeyframeOf(sv, ev, st, et) ==
  [ startValue |-> sv, endValue |-> ev, startTime |-> st, endTime |-> et ]

\* AnimatableProperty<T>(keyframes): value starts as the first start value.
AnimatableProperty(keyframes) ==
  [ value |-> keyframes[1].startValue, animatable |-> TRUE, keyframes |-> keyframes ]

\* Linear interpolation at num / den of the way; T is the value type.
Interpolate(T, a, b, num, den) ==
  IF T = "Point"
  THEN << a[1] + ((b[1] - a[1]) * num) \div den, a[2] + ((b[2] - a[2]) * num) \div den >>
  ELSE a + ((b - a) * num) \div den

\* Property<T>::getValueAt(frame) for T: the fixed value, or the keyframes' value:
\* the first start value before the first keyframe, the last end value at
\* or after the last end time, interpolated inside a keyframe.
GetValueAt(T, p, frame) ==
  IF ~p.animatable THEN p.value
  ELSE LET ks == p.keyframes
       IN  IF frame <= ks[1].startTime THEN ks[1].startValue
           ELSE IF frame >= ks[Len(ks)].endTime THEN ks[Len(ks)].endValue
           ELSE LET k == ks[CHOOSE i \in 1..Len(ks) : frame < ks[i].endTime
                              /\ \A j \in 1..(i - 1) : frame >= ks[j].endTime]
                IN  IF frame <= k.startTime THEN k.startValue
                    ELSE Interpolate(T, k.startValue, k.endValue,
                                     frame - k.startTime, k.endTime - k.startTime)

\* Transform2D::MakeDefault(): every property at its identity value, no
\* xPosition / yPosition.
MakeDefault ==
  [ anchorPoint |-> Some(Property(<<0, 0>>)),
    position    |-> Some(Property(<<0, 0>>)),
    xPosition   |-> Null,
    yPosition   |-> Null,
    scale       |-> Some(Property(<<1, 1>>)),
    rotation    |-> Some(Property(0)),
    opacity     |-> Some(Property(Opaque)) ]

\* A new property with the same keyframes or the same value.
DeepCloneProperty(src) == IF IsNull(src) THEN Null ELSE Some(Deref(src))

\* ReplaceWithAnimatable that seeds the static property with the fallback
\* whatever the property it replaces.
ReplaceWithAnimatableFallback(target, keyframes, fallback) ==
  IF keyframes # <<>>
  THEN Some(AnimatableProperty(keyframes))
  ELSE Some(Property(fallback))

\* ReplaceWithAnimatable<Point>: *target after the call.
ReplaceWithAnimatable(target, keyframes, fallback) ==
  IF keyframes # <<>>
  THEN Some(AnimatableProperty(keyframes))
  ELSE Some(Property(IF IsNull(target) THEN fallback
                     ELSE GetValueAt("Point", Deref(target), 0)))

\* _setPosition that leaves xPosition / yPosition alone.
SetPositionKeepXY(t, v) ==
  [t EXCEPT !.position = Some(IF IsNull(@) THEN Property(v)
                              ELSE [Deref(@) EXCEPT !.value = v])]

SetPosition(t, v) ==
  [t EXCEPT !.position = Some(IF IsNull(@) THEN Property(v)
                              ELSE [Deref(@) EXCEPT !.value = v]),
            !.xPosition = Null,
            !.yPosition = Null]

SetXPosition(t, v) ==
  IF ~IsNull(t.position)
  THEN [t EXCEPT !.position = Some([Deref(@) EXCEPT !.value = <<v, @[2]>>])]
  ELSE [t EXCEPT !.xPosition = Some(IF IsNull(@) THEN Property(v)
                                    ELSE [Deref(@) EXCEPT !.value = v])]

SetYPosition(t, v) ==
  IF ~IsNull(t.position)
  THEN [t EXCEPT !.position = Some([Deref(@) EXCEPT !.value = <<@[1], v>>])]
  ELSE [t EXCEPT !.yPosition = Some(IF IsNull(@) THEN Property(v)
                                    ELSE [Deref(@) EXCEPT !.value = v])]

SetPositionKeyframes(t, keyframes) ==
  [t EXCEPT !.position = ReplaceWithAnimatable(t.position, keyframes, <<0, 0>>),
            !.xPosition = Null,
            !.yPosition = Null]

SetScaleKeyframes(t, keyframes) ==
  [t EXCEPT !.scale = ReplaceWithAnimatable(t.scale, keyframes, <<1, 1>>)]

\* clamp255 of _setOpacityKeyframes.
Clamp255(v) == IF v < 0 THEN 0 ELSE IF v > 255 THEN 255 ELSE v

\* _setOpacityKeyframes: the same replacement written out for Opacity.
SetOpacityKeyframes(t, list) ==
  IF list = <<>>
  THEN [t EXCEPT !.opacity =
          Some(Property(IF IsNull(@) THEN Opaque
                        ELSE GetValueAt("Opacity", Deref(@), 0)))]
  ELSE [t EXCEPT !.opacity =
          Some(AnimatableProperty(
                 [ i \in 1..Len(list) |->
                     [list[i] EXCEPT !.startValue = Clamp255(@),
                                     !.endValue = Clamp255(@)] ]))]

\* getTransform2D: the copy returned, nullptr without a layer transform.
GetTransform2D(layerTransform) ==
  IF IsNull(layerTransform) THEN Null
  ELSE LET src == Deref(layerTransform)
           copy == [ MakeDefault EXCEPT
                       !.anchorPoint = DeepCloneProperty(src.anchorPoint),
                       !.scale = DeepCloneProperty(src.scale),
                       !.rotation = DeepCloneProperty(src.rotation),
                       !.opacity = DeepCloneProperty(src.opacity) ]
       IN  IF ~IsNull(src.position)
           THEN Some([ copy EXCEPT !.position = DeepCloneProperty(src.position),
                                   !.xPosition = Null, !.yPosition = Null ])
           ELSE Some([ copy EXCEPT !.position = Null,
                                   !.xPosition = DeepCloneProperty(src.xPosition),
                                   !.yPosition = DeepCloneProperty(src.yPosition) ])

\* setTransform2D copying every property of the argument, null or not.
SetTransform2DCopyAll(layerTransform, t) ==
  Some([ f \in DOMAIN t |-> DeepCloneProperty(t[f]) ])

\* setTransform2D: layer->transform after it, t being the argument.
SetTransform2D(layerTransform, t) ==
  LET target == IF IsNull(layerTransform) THEN MakeDefault ELSE Deref(layerTransform)
      Cloned(new, old) == IF ~IsNull(new) THEN DeepCloneProperty(new) ELSE old
      others == [ target EXCEPT
                    !.anchorPoint = Cloned(t.anchorPoint, @),
                    !.scale = Cloned(t.scale, @),
                    !.rotation = Cloned(t.rotation, @),
                    !.opacity = Cloned(t.opacity, @) ]
  IN  IF ~IsNull(t.position)
      THEN Some([ others EXCEPT !.position = DeepCloneProperty(t.position),
                                !.xPosition = Null, !.yPosition = Null ])
      ELSE Some([ others EXCEPT !.position = Null,
                                !.xPosition = Cloned(t.xPosition, @),
                                !.yPosition = Cloned(t.yPosition, @) ])

T2DRecord(op) ==
  [ op |-> op, before |-> transform2d, layerBefore |-> t2dLayer,
    keyframes |-> <<>>, ops |-> t2dLast.ops + 1 ]

\* Keyframe lists of Point values: frame 0 lies before the keyframe, after
\* it, inside it, and inside the second of two.
PointKeyframes ==
  { <<>>,
    << KeyframeOf(<<1, 1>>, <<0, 1>>, 1, 2) >>,
    << KeyframeOf(<<1, 1>>, <<0, 1>>, -2, -1) >>,
    << KeyframeOf(<<0, 0>>, <<2, 0>>, -1, 1) >>,
    << KeyframeOf(<<1, 1>>, <<0, 0>>, -3, -1), KeyframeOf(<<0, 0>>, <<0, 2>>, -1, 1) >> }

\* Keyframe lists of _setOpacityKeyframes, with values outside 0..255.
OpacityKeyframes ==
  { <<>>,
    << KeyframeOf(0, 100, -1, 1) >>,
    << KeyframeOf(-5, 300, 1, 2) >> }

Transform2D_setPosition ==
  /\ t2dLast.ops < MaxT2DOps
  /\ ~IsNull(transform2d)
  /\ \E v \in Points : transform2d' = Some(SetPosition(Deref(transform2d), v))
  /\ t2dLast' = T2DRecord("_setPosition")
  /\ UNCHANGED t2dLayer
  /\ UNCHANGED notT2D

Transform2D_setXPosition ==
  /\ t2dLast.ops < MaxT2DOps
  /\ ~IsNull(transform2d)
  /\ \E v \in Coords : transform2d' = Some(SetXPosition(Deref(transform2d), v))
  /\ t2dLast' = T2DRecord("_setXPosition")
  /\ UNCHANGED t2dLayer
  /\ UNCHANGED notT2D

Transform2D_setYPosition ==
  /\ t2dLast.ops < MaxT2DOps
  /\ ~IsNull(transform2d)
  /\ \E v \in Coords : transform2d' = Some(SetYPosition(Deref(transform2d), v))
  /\ t2dLast' = T2DRecord("_setYPosition")
  /\ UNCHANGED t2dLayer
  /\ UNCHANGED notT2D

Transform2D_setPositionKeyframes ==
  /\ t2dLast.ops < MaxT2DOps
  /\ ~IsNull(transform2d)
  /\ \E keyframes \in PointKeyframes :
       /\ transform2d' = Some(SetPositionKeyframes(Deref(transform2d), keyframes))
       /\ t2dLast' = [T2DRecord("_setPositionKeyframes") EXCEPT !.keyframes = keyframes]
  /\ UNCHANGED t2dLayer
  /\ UNCHANGED notT2D

Transform2D_setScaleKeyframes ==
  /\ t2dLast.ops < MaxT2DOps
  /\ ~IsNull(transform2d)
  /\ \E keyframes \in PointKeyframes :
       /\ transform2d' = Some(SetScaleKeyframes(Deref(transform2d), keyframes))
       /\ t2dLast' = [T2DRecord("_setScaleKeyframes") EXCEPT !.keyframes = keyframes]
  /\ UNCHANGED t2dLayer
  /\ UNCHANGED notT2D

Transform2D_setOpacityKeyframes ==
  /\ t2dLast.ops < MaxT2DOps
  /\ ~IsNull(transform2d)
  /\ \E list \in OpacityKeyframes :
       /\ transform2d' = Some(SetOpacityKeyframes(Deref(transform2d), list))
       /\ t2dLast' = [T2DRecord("_setOpacityKeyframes") EXCEPT !.keyframes = list]
  /\ UNCHANGED t2dLayer
  /\ UNCHANGED notT2D

PAGLayer_getTransform2D ==
  /\ t2dLast.ops < MaxT2DOps
  /\ transform2d' = GetTransform2D(t2dLayer.transform)
  /\ t2dLast' = T2DRecord("getTransform2D")
  /\ UNCHANGED t2dLayer
  /\ UNCHANGED notT2D

\* setTransform2D(transform2d); it ends with notifyModified(true).
PAGLayer_setTransform2D ==
  /\ t2dLast.ops < MaxT2DOps
  /\ t2dLayer' = IF IsNull(transform2d) THEN t2dLayer
                 ELSE [ transform |-> SetTransform2D(t2dLayer.transform, Deref(transform2d)),
                        contentVersion |-> t2dLayer.contentVersion + 1 ]
  /\ t2dLast' = T2DRecord("setTransform2D")
  /\ UNCHANGED transform2d
  /\ UNCHANGED notT2D

\* The layer's transform as decoded: none, a position, or separate x and y.
InitT2D ==
  /\ \E tr \in {Null}
           \cup { Some([ MakeDefault EXCEPT !.position = Some(Property(v)) ])
                  : v \in Points }
           \cup { Some([ MakeDefault EXCEPT !.position = Null,
                                            !.xPosition = Some(Property(v[1])),
                                            !.yPosition = Some(Property(v[2])) ])
                  : v \in Points } :
       t2dLayer = [ transform |-> tr, contentVersion |-> 0 ]
  /\ transform2d = Null
  /\ t2dLast = [ op |-> "new", before |-> Null, layerBefore |-> t2dLayer,
                 keyframes |-> <<>>, ops |-> 0 ]
  /\ MotionIdle /\ TreeIdle /\ FrameIdle /\ SlideIdle /\ LockIdle /\ LaterIdle

NextT2D ==
  \/ Transform2D_setPosition
  \/ Transform2D_setXPosition
  \/ Transform2D_setYPosition
  \/ Transform2D_setPositionKeyframes
  \/ Transform2D_setScaleKeyframes
  \/ Transform2D_setOpacityKeyframes
  \/ PAGLayer_getTransform2D
  \/ PAGLayer_setTransform2D

SpecT2D == InitT2D /\ [][NextT2D]_vars

\* Transform2D objects a caller builds property by property: each property
\* is absent or holds a value that differs from MakeDefault's.
CallerTransforms ==
  { [ anchorPoint |-> IF "anchorPoint" \in set THEN Some(Property(<<1, 1>>)) ELSE Null,
      position    |-> IF "position" \in set THEN Some(Property(<<1, 0>>)) ELSE Null,
      xPosition   |-> IF "xPosition" \in set THEN Some(Property(1)) ELSE Null,
      yPosition   |-> IF "yPosition" \in set THEN Some(Property(1)) ELSE Null,
      scale       |-> IF "scale" \in set THEN Some(Property(<<0, 0>>)) ELSE Null,
      rotation    |-> IF "rotation" \in set THEN Some(Property(1)) ELSE Null,
      opacity     |-> IF "opacity" \in set THEN Some(Property(0)) ELSE Null ]
    : set \in SUBSET DOMAIN MakeDefault }

InitT2DSet ==
  /\ \E tr \in { Null, Some(MakeDefault),
                  Some([ MakeDefault EXCEPT !.position = Null,
                                           !.xPosition = Some(Property(0)),
                                           !.yPosition = Some(Property(0)) ]) } :
       t2dLayer = [ transform |-> tr, contentVersion |-> 0 ]
  /\ transform2d \in {Null} \cup { Some(t) : t \in CallerTransforms }
  /\ t2dLast = [ op |-> "new", before |-> Null, layerBefore |-> t2dLayer,
                 keyframes |-> <<>>, ops |-> 0 ]
  /\ MotionIdle /\ TreeIdle /\ FrameIdle /\ SlideIdle /\ LockIdle /\ LaterIdle

NextT2DSet ==
  \/ PAGLayer_setTransform2D
  \/ PAGLayer_getTransform2D

SpecT2DSet == InitT2DSet /\ [][NextT2DSet]_vars

(***************************************************************************)
(*                     Claims about Transform2D                            *)
(***************************************************************************)
\* position is not populated together with xPosition or yPosition.
Exclusive(t) ==
  IsNull(t) \/ IsNull(Deref(t).position)
            \/ (IsNull(Deref(t).xPosition) /\ IsNull(Deref(t).yPosition))

PositionSetters == {"_setPosition", "_setPositionKeyframes"}
AxisSetters == {"_setXPosition", "_setYPosition"}

\* C8 as stated: after any sequence of setTransform2D calls and Transform2D
\* setter calls no Transform2D has position populated together with
\* xPosition or yPosition; setting position leaves xPosition and yPosition
\* null, and setting xPosition or yPosition leaves position null.
C8_SettingOneClearsTheOther ==
  /\ Exclusive(transform2d) /\ Exclusive(t2dLayer.transform)
  /\ t2dLast.op \in PositionSetters =>
       /\ ~IsNull(Deref(transform2d).position)
       /\ IsNull(Deref(transform2d).xPosition)
       /\ IsNull(Deref(transform2d).yPosition)
  /\ t2dLast.op \in AxisSetters => IsNull(Deref(transform2d).position)

\* C8, amended: no Transform2D ever has position populated together with
\* xPosition or yPosition; setting position leaves xPosition and yPosition
\* null; _setXPosition / _setYPosition clear nothing: on a Transform2D with a
\* position they write the coordinate into it and leave it populated, and
\* only on one without a position do they populate xPosition / yPosition.
\* setTransform2D with an argument without position clears the layer's.
C8_PositionExclusive ==
  /\ Exclusive(transform2d) /\ Exclusive(t2dLayer.transform)
  /\ t2dLast.op \in PositionSetters =>
       /\ ~IsNull(Deref(transform2d).position)
       /\ IsNull(Deref(transform2d).xPosition)
       /\ IsNull(Deref(transform2d).yPosition)
  /\ t2dLast.op \in AxisSetters =>
       LET was == Deref(t2dLast.before)
           now == Deref(transform2d)
       IN  /\ IsNull(now.position) <=> IsNull(was.position)
           /\ ~IsNull(was.position) =>
                now.xPosition = was.xPosition /\ now.yPosition = was.yPosition
           /\ IsNull(was.position) =>
                ~IsNull(IF t2dLast.op = "_setXPosition" THEN now.xPosition
                        ELSE now.yPosition)
  /\ (t2dLast.op = "setTransform2D" /\ ~IsNull(transform2d)) =>
       (IsNull(Deref(t2dLayer.transform).position)
          <=> IsNull(Deref(transform2d).position))

\* _setXPosition on a Transform2D that has a position: x is written into the
\* position, which stays populated.
C8_Witness ==
  /\ t2dLast.op = "_setXPosition"
  /\ ~IsNull(Deref(t2dLast.before).position)
  /\ Deref(Deref(t2dLast.before).position).value[1] = 0
  /\ ~IsNull(Deref(transform2d).position)
  /\ Deref(Deref(transform2d).position).value[1] = 1
  /\ IsNull(Deref(transform2d).xPosition)

ReplaceSetters == {"_setPositionKeyframes", "_setScaleKeyframes"}
KeyframeSetters == ReplaceSetters \cup {"_setOpacityKeyframes"}

\* The property a keyframe setter replaces, and the fallback it passes.
SetterTarget(op, t) ==
  CASE op = "_setPositionKeyframes" -> t.position
    [] op = "_setScaleKeyframes"    -> t.scale
    [] OTHER                        -> t.opacity

SetterFallback(op) ==
  CASE op = "_setPositionKeyframes" -> <<0, 0>>
    [] op = "_setScaleKeyframes"    -> <<1, 1>>
    [] OTHER                        -> Opaque

ValueAtZero(op, p) ==
  GetValueAt(IF op = "_setOpacityKeyframes" THEN "Opacity" ELSE "Point", p, 0)

\* C26: a keyframe setter called with an empty list leaves a static
\* property whose value is getValueAt(0) of the property it replaced, and
\* the fallback only when there was none; called with keyframes it leaves
\* an animatable property holding exactly those keyframes (for opacity,
\* those keyframes with their values cut to 0..255).  One property is
\* installed in both cases.
C26_ReplaceKeepsValueAtZero ==
  t2dLast.op \in KeyframeSetters =>
    LET old == SetterTarget(t2dLast.op, Deref(t2dLast.before))
        new == SetterTarget(t2dLast.op, Deref(transform2d))
    IN  /\ ~IsNull(new)
        /\ t2dLast.keyframes = <<>> =>
             /\ ~Deref(new).animatable
             /\ Deref(new).value = IF IsNull(old) THEN SetterFallback(t2dLast.op)
                                   ELSE ValueAtZero(t2dLast.op, Deref(old))
        /\ t2dLast.keyframes # <<>> =>
             /\ Deref(new).animatable
             /\ Len(Deref(new).keyframes) = Len(t2dLast.keyframes)
             /\ t2dLast.op \in ReplaceSetters =>
                  Deref(new).keyframes = t2dLast.keyframes
             /\ \A i \in 1..Len(t2dLast.keyframes) :
                  /\ Deref(new).keyframes[i].startTime = t2dLast.keyframes[i].startTime
                  /\ Deref(new).keyframes[i].endTime = t2dLast.keyframes[i].endTime

\* _setPositionKeyframes with an empty list on a position animated from
\* (0, 0) at frame -1 to (2, 0) at frame 1: the static value is (1, 0).
C26_Witness ==
  /\ t2dLast.op = "_setPositionKeyframes"
  /\ t2dLast.keyframes = <<>>
  /\ ~IsNull(Deref(t2dLast.before).position)
  /\ Deref(Deref(t2dLast.before).position).animatable
  /\ Deref(Deref(t2dLast.before).position).value = <<0, 0>>
  /\ Deref(transform2d).position = Some(Property(<<1, 0>>))

IndependentProperties == {"anchorPoint", "scale", "rotation", "opacity"}

\* The layer's transform before the last call, as setTransform2D sees it:
\* a missing one is created by MakeDefault() first.
TransformBefore ==
  IF IsNull(t2dLast.layerBefore.transform) THEN MakeDefault
  ELSE Deref(t2dLast.layerBefore.transform)

MaxSlideOps == 2   \* apply / reset calls in one behaviour

ProgressDen == 8
EaseDen == ProgressDen * ProgressDen * ProgressDen

kDuration == 3000000
kStartX == 240
kEndX == 40

LayerFrameRate == 60

LayerDurations == {20000, 50000, kDuration}
FontSizes == {48}
SlideProgresses == -1..(ProgressDen + 1)

\* A clamp that does not clamp.
ClampNone(n) == n

Clamp01(n) == IF n < 0 THEN 0 ELSE IF n > ProgressDen THEN ProgressDen ELSE n

\* An easing that is no easing: the eased progress is the progress.
EaseLinear(n) == Clamp01(n) * ProgressDen * ProgressDen

\* 1 - (1 - t)^3, in 512ths.
EaseOutCubic(n) ==
  LET t == Clamp01(n)
      inv == ProgressDen - t
  IN  EaseDen - inv * inv * inv

\* ceil(frame * 1000000 / frameRate), frame >= 0.
FrameToTime(frame, frameRate) == (frame * MicrosPerSecond + frameRate - 1) \div frameRate

ProgressToTime(n, totalTime) ==
  IF totalTime <= 1 THEN 0
  ELSE LET fmod == n % ProgressDen
           percent == IF fmod <= 0 /\ n # 0 THEN fmod + ProgressDen ELSE fmod
           currentTime == (percent * totalTime) \div ProgressDen
       IN  IF currentTime = totalTime THEN totalTime - 1 ELSE currentTime

\* The progress as a fraction <<numerator, denominator>>.
FrameToProgress(currentFrame, totalFrames) ==
  IF totalFrames <= 1 \/ currentFrame < 0 THEN <<0, 1>>
  ELSE IF currentFrame >= totalFrames - 1 THEN <<1, 1>>
  ELSE <<10 * currentFrame + 1, 10 * totalFrames>>

\* PAGTextLayer::Make(duration, text, fontSize, ...)
PAGTextLayer_Make(duration, fontSize) ==
  [ frameDuration |-> TimeToFrame(duration, LayerFrameRate),
    startFrame |-> 0,
    contentFrame |-> 0,
    position |-> <<0, fontSize * EaseDen>>,
    contentVersion |-> 0,
    \* glyphTransformProvider: "none", "preset" (a SlideLeftGlyphProvider)
    \* or "web" (a provider of other code)
    glyphProvider |-> "none",
    \* not a field: whether a shared_ptr to the layer still exists
    alive |-> TRUE ]

DurationInternal(layer) == FrameToTime(layer.frameDuration, LayerFrameRate)

GetProgress(layer) == FrameToProgress(layer.contentFrame, layer.frameDuration)

\* setProgress -> gotoTimeAndNotifyChanged -> gotoTime.  notifyModified()
\* without contentChanged only walks up from the layer, which has no parent.
SetProgress(layer, n) ==
  LET targetTime == FrameToTime(layer.startFrame, LayerFrameRate)
                      + ProgressToTime(n, DurationInternal(layer))
      layerFrame == TimeToFrame(targetTime, LayerFrameRate)
  IN  [layer EXCEPT !.contentFrame = layerFrame - layer.startFrame]

\* updateTransform(easedProgress): setTransform2D of a default transform with
\* the interpolated position, which ends with notifyModified(true).
UpdateTransform(layer, pre, eased) ==
  LET position == << pre.startPosition[1] * EaseDen
                       + (pre.endPosition[1] - pre.startPosition[1]) * eased,
                     pre.startPosition[2] * EaseDen
                       + (pre.endPosition[2] - pre.startPosition[2]) * eased >>
  IN  [layer EXCEPT !.position = position, !.contentVersion = @ + 1]

NotifyContentChanged(layer) == [layer EXCEPT !.contentVersion = @ + 1]

\* PAGTextLayer::setGlyphTransformProvider / clearGlyphTransform.
SetGlyphTransformProvider(layer, provider) ==
  [layer EXCEPT !.glyphProvider = provider]

ClearGlyphTransform(layer) == [layer EXCEPT !.glyphProvider = "none"]

SlideRecord(op, n) ==
  [ op |-> op, progress |-> n, before |-> slideLayer,
    ops |-> slideLast.ops + (IF op \in {"apply", "reset"} THEN 1 ELSE 0),
    made |-> slideLast.made \/ op = "Make" ]

\* SlideLeftPreset::Make: the constructor and initialize().
SlideLeftPreset_Make(duration, startX, endX) ==
  /\ IsNull(slidePreset)
  /\ ~slideLast.made
  /\ IF duration <= 0 \/ ~slideLayer.alive
     THEN \* Make returns nullptr
          UNCHANGED <<slidePreset, slideLayer>>
     ELSE LET pre == [ durationUS |-> duration,
                       startPosition |-> <<startX, slideLayer.position[2] \div EaseDen>>,
                       endPosition |-> <<endX, slideLayer.position[2] \div EaseDen>>,
                       currentProgress |-> 0,
                       manualTimeUS |-> 0 ]
          IN  /\ slidePreset' = Some(pre)
              /\ slideLayer' = NotifyContentChanged(
                                 UpdateTransform(
                                   SetProgress(
                                     SetGlyphTransformProvider(slideLayer, "preset"),
                                     0),
                                   pre, 0))
  /\ slideLast' = SlideRecord("Make", 0)
  /\ UNCHANGED notSlide

ApplyToLayer(layer, pre, n) ==
  NotifyContentChanged(
    UpdateTransform(SetProgress(layer, Clamp01(n)), pre, EaseOutCubic(Clamp01(n))))

\* The fields of the preset and of its glyph provider that apply() writes:
\* currentProgress before weakLayer.lock(), the provider's override after
\* the early return.
ApplyToPreset(pre, n, layerAlive) ==
  [pre EXCEPT !.currentProgress = Clamp01(n),
              !.manualTimeUS =
                 IF layerAlive
                 THEN (Clamp01(Clamp01(n)) * pre.durationUS) \div ProgressDen
                 ELSE @]

\* A destructor that leaves the layer's glyph provider in place.
DisposeKeepProvider(layer) == layer

\* ~SlideLeftPreset on the layer.
Dispose(layer) == IF layer.alive THEN ClearGlyphTransform(layer) ELSE layer

SlideLeftPreset_apply(n) ==
  /\ ~IsNull(slidePreset)
  /\ slideLast.ops < MaxSlideOps
  /\ slideLayer' = IF slideLayer.alive
                   THEN ApplyToLayer(slideLayer, Deref(slidePreset), n)
                   ELSE slideLayer
  /\ slidePreset' = Some(ApplyToPreset(Deref(slidePreset), n, slideLayer.alive))
  /\ slideLast' = SlideRecord("apply", n)
  /\ UNCHANGED notSlide

\* reset() is apply(0.0).
SlideLeftPreset_reset ==
  /\ ~IsNull(slidePreset)
  /\ slideLast.ops < MaxSlideOps
  /\ slideLayer' = IF slideLayer.alive
                   THEN ApplyToLayer(slideLayer, Deref(slidePreset), 0)
                   ELSE slideLayer
  /\ slidePreset' = Some(ApplyToPreset(Deref(slidePreset), 0, slideLayer.alive))
  /\ slideLast' = SlideRecord("reset", 0)
  /\ UNCHANGED notSlide

\* The last shared_ptr to the preset goes away.
SlideLeftPreset_destroy ==
  /\ ~IsNull(slidePreset)
  /\ slideLayer' = Dispose(slideLayer)
  /\ slidePreset' = Null
  /\ slideLast' = SlideRecord("destroy", 0)
  /\ UNCHANGED notSlide

\* The last shared_ptr to the layer goes away: weakLayer expires.
PAGTextLayer_release ==
  /\ slideLayer.alive
  /\ slideLayer' = [slideLayer EXCEPT !.alive = FALSE]
  /\ slideLast' = SlideRecord("release", 0)
  /\ UNCHANGED slidePreset
  /\ UNCHANGED notSlide

\* Other code (the _setGlyphTransform binding) installs its own provider.
Web_setGlyphTransform ==
  /\ slideLayer.alive
  /\ slideLayer.glyphProvider # "web"
  /\ slideLayer' = SetGlyphTransformProvider(slideLayer, "web")
  /\ slideLast' = SlideRecord("setGlyphTransform", 0)
  /\ UNCHANGED slidePreset
  /\ UNCHANGED notSlide

InitSlide ==
  /\ \E duration \in LayerDurations, fontSize \in FontSizes :
       slideLayer = PAGTextLayer_Make(duration, fontSize)
  /\ slidePreset = Null
  /\ slideLast = [ op |-> "new", progress |-> 0, before |-> <<>>, ops |-> 0,
                   made |-> FALSE ]
  /\ MotionIdle /\ TreeIdle /\ FrameIdle /\ T2DIdle /\ LockIdle /\ LaterIdle

Slide_Make ==
  \E duration \in {0, kDuration}, startX \in {kStartX, 0}, endX \in {kEndX, 8} :
    SlideLeftPreset_Make(duration, startX, endX)

Slide_apply == \E n \in SlideProgresses : SlideLeftPreset_apply(n)

NextSlide ==
  \/ Slide_Make
  \/ Slide_apply
  \/ SlideLeftPreset_reset
  \/ SlideLeftPreset_destroy
  \/ PAGTextLayer_release
  \/ Web_setGlyphTransform

SpecSlide == InitSlide /\ [][NextSlide]_vars

(***************************************************************************)
(*                   Claims about SlideLeftPreset                          *)
(***************************************************************************)
Abs(x) == IF x < 0 THEN -x ELSE x

\* apply(p) has just returned, for a p in [0, 1], the layer being alive.
AppliedInRange ==
  /\ slideLast.op = "apply"
  /\ slideLast.progress \in 0..ProgressDen
  /\ slideLast.before.alive

\* position.x = startX + (endX - startX) * (1 - (1 - p)^3), times 512.
PositionIsEased ==
  LET pre == Deref(slidePreset)
      n == slideLast.progress
      startX == pre.startPosition[1]
      endX == pre.endPosition[1]
  IN  slideLayer.position[1] =
        startX * 512 + (endX - startX) * (512 - (8 - n) * (8 - n) * (8 - n))

\* |getProgress() - p| * scale <= 1, p being slideLast.progress eighths.
ProgressWithin(scale) ==
  LET g == GetProgress(slideLayer)
  IN  Abs(8 * g[1] - slideLast.progress * g[2]) * scale <= 8 * g[2]

TestFixture ==
  /\ ~IsNull(slidePreset)
  /\ slideLayer.frameDuration = 180
  /\ Deref(slidePreset).startPosition[1] = kStartX
  /\ Deref(slidePreset).endPosition[1] = kEndX

\* C10: as the test ApplyProgressUpdatesTransform asserts, after apply(p)
\* position.x is kStartX at p = 0 and kEndX at p = 1 (within 1e-3), within
\* 1.0 of the midpoint kStartX + (kEndX - kStartX) * 0.5 at p = 0.5, and
\* getProgress() is within 1e-3 of p at p = 0.5 and p = 1.
C10_TestAsserts ==
  (TestFixture /\ AppliedInRange) =>
    LET x == slideLayer.position[1]
    IN  /\ slideLast.progress = 0 => Abs(x - kStartX * EaseDen) * 1000 <= EaseDen
        /\ slideLast.progress = 4 =>
             /\ Abs(2 * x - (2 * kStartX + (kEndX - kStartX)) * EaseDen) <= 2 * EaseDen
             /\ ProgressWithin(1000)
        /\ slideLast.progress = 8 =>
             /\ Abs(x - kEndX * EaseDen) * 1000 <= EaseDen
             /\ ProgressWithin(1000)

\* The preset, its provider and the layer stand at progress 0: start
\* position, content frame of time 0, override at time 0; the call went
\* through setTransform2D and notifyModified(true) once each and left the
\* installed glyph provider alone.
AtProgressZero ==
  LET pre == Deref(slidePreset)
  IN  /\ pre.currentProgress = 0
      /\ pre.manualTimeUS = 0
      /\ slideLayer.contentFrame = 0
      /\ slideLayer.position = << pre.startPosition[1] * EaseDen,
                                  pre.startPosition[2] * EaseDen >>
      /\ slideLayer.contentVersion = slideLast.before.contentVersion + 2
      /\ slideLayer.glyphProvider = slideLast.before.glyphProvider

\* C15: the life of a SlideLeftPreset.  Right after a successful Make the
\* progress is 0 and the transform and the glyph provider are installed on
\* the layer; after every apply(p) or reset() progress() lies in [0, 1] and
\* is the clamped argument; reset() leaves preset, provider and layer in
\* the state apply(0.0) leaves them in; with the layer expired, apply and
\* reset change no layer.
C15_Lifecycle ==
  /\ (slideLast.op = "Make" /\ ~IsNull(slidePreset)) =>
       /\ Deref(slidePreset).currentProgress = 0
       /\ Deref(slidePreset).manualTimeUS = 0
       /\ slideLayer.glyphProvider = "preset"
       /\ slideLayer.contentFrame = 0
       /\ slideLayer.position =
            << Deref(slidePreset).startPosition[1] * EaseDen,
               Deref(slidePreset).startPosition[2] * EaseDen >>
  /\ slideLast.op \in {"apply", "reset"} =>
       /\ Deref(slidePreset).currentProgress \in 0..ProgressDen
       /\ Deref(slidePreset).currentProgress =
            Max(0, Min(ProgressDen, slideLast.progress))
       /\ slideLast.before.alive =>
            ((slideLast.op = "reset" \/ slideLast.progress <= 0) => AtProgressZero)
       /\ ~slideLast.before.alive => slideLayer = slideLast.before

\* apply(9/8) on a preset whose layer has expired, after an earlier call:
\* the progress is clamped to 1 and the layer is as it was.
C15_Witness ==
  /\ slideLast.op = "apply"
  /\ slideLast.progress = ProgressDen + 1
  /\ slideLast.ops = 2
  /\ ~slideLast.before.alive
  /\ Deref(slidePreset).currentProgress = ProgressDen
  /\ slideLayer.glyphProvider = "preset"

\* C16: destroying the preset while its layer is alive leaves the layer
\* without a glyph provider (and changes nothing else of it); destroying
\* it after the layer has expired touches no layer.
C16_DestroyClearsProvider ==
  slideLast.op = "destroy" =>
    IF slideLast.before.alive
    THEN /\ slideLayer.glyphProvider = "none"
         /\ [slideLayer EXCEPT !.glyphProvider = slideLast.before.glyphProvider]
              = slideLast.before
    ELSE slideLayer = slideLast.before

\* The preset is destroyed while its provider sits on the living layer.
C16_Witness ==
  /\ slideLast.op = "destroy"
  /\ slideLast.before.alive
  /\ slideLast.before.glyphProvider = "preset"
  /\ slideLayer.glyphProvider = "none"

\* C28: destroying the preset detaches only the glyph provider the preset
\* installed: a provider other code installed on the layer after the
\* preset was made is still installed after the preset is destroyed.
C28_DestroyKeepsLaterProvider ==
  (slideLast.op = "destroy" /\ slideLast.before.alive
     /\ slideLast.before.glyphProvider = "web") =>
    slideLayer.glyphProvider = "web"


(***************************************************************************)
(*     Threads calling into one layer tree: LockGuard and rootLocker       *)
(*                                                                         *)
(* A call is the sequence of its steps on the tree's mutex and on the      *)
(* layer's fields.  contentVersion++ is a load and a store.  The layer has *)
(* no parent, so notifyModified() without contentChanged writes nothing.   *)
(***************************************************************************)
NumThreads == 2    \* threads calling into the tree
MaxCalls == 1      \* calls a thread makes in one behaviour

Threads == 1..NumThreads

Step(kind, field) == [ kind |-> kind, field |-> field ]

\* notifyModified(true): contentVersion++.
NotifyModifiedSteps == << Step("load", "contentVersion"), Step("store", "contentVersion") >>

\* LockGuard autoLock(rootLocker) around the body.
Guarded(body) ==
  << Step("lock", "rootLocker") >> \o body \o << Step("unlock", "rootLocker") >>

PAGLayer_alpha == Guarded(<< Step("read", "layerAlpha") >>)
\* setAlpha compares and returns early on an equal alpha; storing the equal
\* value leaves the same state.
PAGLayer_setAlpha == Guarded(<< Step("read", "layerAlpha"), Step("write", "layerAlpha") >>)
PAGLayer_trackMatteLayer == << Step("read", "trackMatteLayer") >>
PAGLayer_setProgress == Guarded(<< Step("write", "contentFrame") >>)
PAGLayer_setTransform2D_steps == Guarded(<< Step("write", "position") >> \o NotifyModifiedSteps)

\* apply: layer->setProgress, updateTransform -> layer->setTransform2D, then
\* layer->notifyModified(true) called from the preset.
SlideLeftPreset_apply_steps ==
  PAGLayer_setProgress \o PAGLayer_setTransform2D_steps \o NotifyModifiedSteps

Steps(method) ==
  CASE method = "alpha" -> PAGLayer_alpha
    [] method = "setAlpha" -> PAGLayer_setAlpha
    [] method = "trackMatteLayer" -> PAGLayer_trackMatteLayer
    [] method = "setProgress" -> PAGLayer_setProgress
    [] method = "setTransform2D" -> PAGLayer_setTransform2D_steps
    [] method = "SlideLeftPreset::apply" -> SlideLeftPreset_apply_steps
    [] OTHER -> <<>>

Methods == {"alpha", "setAlpha", "trackMatteLayer", "setProgress", "setTransform2D",
            "SlideLeftPreset::apply"}

\* The step thread t is about to take, <<>> when it is in no call.
NextStep(t) ==
  IF pc[t].i <= Len(Steps(pc[t].method)) THEN Some(Steps(pc[t].method)[pc[t].i]) ELSE Null

AtKind(t, kind) == ~IsNull(NextStep(t)) /\ Deref(NextStep(t)).kind = kind

Advance(t, tmp) == [pc EXCEPT ![t].i = @ + 1, ![t].tmp = tmp]

Call(t) ==
  /\ pc[t].method = "idle"
  /\ pc[t].calls < MaxCalls
  /\ \E method \in Methods, arg \in {0, 1} :
       pc' = [pc EXCEPT ![t] = [ method |-> method, i |-> 1, arg |-> arg, tmp |-> 0,
                                 calls |-> @.calls + 1 ]]
  /\ UNCHANGED <<lockHolder, shared>>
  /\ UNCHANGED notLock

\* std::mutex::lock: blocks while another thread holds it.
Acquire(t) ==
  /\ AtKind(t, "lock")
  /\ lockHolder = 0
  /\ lockHolder' = t
  /\ pc' = Advance(t, pc[t].tmp)
  /\ UNCHANGED shared
  /\ UNCHANGED notLock

Release(t) ==
  /\ AtKind(t, "unlock")
  /\ lockHolder' = 0
  /\ pc' = Advance(t, pc[t].tmp)
  /\ UNCHANGED shared
  /\ UNCHANGED notLock

ReadField(t) ==
  /\ AtKind(t, "read") \/ AtKind(t, "load")
  /\ pc' = Advance(t, shared[Deref(NextStep(t)).field])
  /\ UNCHANGED <<lockHolder, shared>>
  /\ UNCHANGED notLock

WriteField(t) ==
  /\ AtKind(t, "write")
  /\ shared' = [shared EXCEPT ![Deref(NextStep(t)).field] = pc[t].arg]
  /\ pc' = Advance(t, pc[t].tmp)
  /\ UNCHANGED lockHolder
  /\ UNCHANGED notLock

\* The store of ++: the value loaded, plus one.
StoreField(t) ==
  /\ AtKind(t, "store")
  /\ shared' = [shared EXCEPT ![Deref(NextStep(t)).field] = pc[t].tmp + 1]
  /\ pc' = Advance(t, pc[t].tmp)
  /\ UNCHANGED lockHolder
  /\ UNCHANGED notLock

Return(t) ==
  /\ pc[t].method # "idle"
  /\ IsNull(NextStep(t))
  /\ pc' = [pc EXCEPT ![t].method = "idle", ![t].i = 1]
  /\ UNCHANGED <<lockHolder, shared>>
  /\ UNCHANGED notLock

InitLock ==
  /\ pc = [t \in Threads |-> [ method |-> "idle", i |-> 1, arg |-> 0, tmp |-> 0,
                               calls |-> 0 ]]
  /\ lockHolder = 0
  /\ shared = [ layerAlpha |-> 1, trackMatteLayer |-> 0, contentFrame |-> 0,
                position |-> 0, contentVersion |-> 0 ]
  /\ MotionIdle /\ TreeIdle /\ FrameIdle /\ T2DIdle /\ SlideIdle /\ LaterIdle

NextLock ==
  \E t \in Threads :
    \/ Call(t)
    \/ Acquire(t)
    \/ Release(t)
    \/ ReadField(t)
    \/ WriteField(t)
    \/ StoreField(t)
    \/ Return(t)

SpecLock == InitLock /\ [][NextLock]_vars

(***************************************************************************)
(*                        Claims about locking                             *)
(***************************************************************************)
\* Thread t is about to read or write a field of the layer.
Accessing(t) ==
  AtKind(t, "read") \/ AtKind(t, "write") \/ AtKind(t, "load") \/ AtKind(t, "store")

\* C1: every public accessor of a layer holds the tree lock (rootLocker) for
\* its whole duration: a thread that reads or writes layer state
\* (contentVersion, contentFrame, the track-matte pointer, alpha, transform
\* properties) holds the lock, trackMatteLayer() and the notifyModified(true)
\* call of SlideLeftPreset included.
C1_AccessorsHoldLock ==
  \A t \in Threads : Accessing(t) => lockHolder = t


(***************************************************************************)
(*        SlideLeftGlyphProvider (SlideLeftPreset.cpp)                     *)
(*                                                                         *)
(* A double is an exact fraction <<numerator, denominator>>, denominator   *)
(* positive; manualTimeUS and the effective time are numbers of eighths of *)
(* a microsecond (ProgressDen), -1 being -ProgressDen.  The casts to float *)
(* round by less than the tolerances compared against and are left out.    *)
(* compute is given arrays of totalGlyphs floats, never null pointers.     *)
(***************************************************************************)
MaxGlyphOps == 2   \* setProgress / compute calls in one behaviour

kEpsilonInv == 1000000

ProviderDurations == {0, 20}
StaggerInputs == { <<-1, 1>>, <<0, 1>>, <<3, 5>>, <<1, 1>> }
GlyphCounts == {0, 1, 2, 5}

RECURSIVE GCD(_, _)
GCD(a, b) == IF b = 0 THEN a ELSE GCD(b, a % b)

Reduce(f) == LET g == GCD(Abs(f[1]), f[2]) IN << f[1] \div g, f[2] \div g >>

\* EaseOutCubic of a fraction: Clamp01, then 1 - (1 - t)^3.
EaseOutCubicOf(f) ==
  LET t == IF f[1] < 0 THEN <<0, 1>> ELSE IF f[1] > f[2] THEN <<1, 1>> ELSE Reduce(f)
      inv == t[2] - t[1]
  IN  << t[2] * t[2] * t[2] - inv * inv * inv, t[2] * t[2] * t[2] >>

\* (glyphEased - baseEased) * translationDeltaX * trailingFactor
GlyphOffset(glyphEased, baseEased, prov) ==
  LET m == (glyphEased[2] \div GCD(glyphEased[2], baseEased[2])) * baseEased[2]
  IN  << (glyphEased[1] * (m \div glyphEased[2]) - baseEased[1] * (m \div baseEased[2]))
           * prov.translationDeltaX * prov.trailingFactor, m >>

\* The constructor: durationUS, staggerFraction and trailingFactor clamped.
SlideLeftGlyphProvider_new(duration, translationDeltaX, stagger, trailing) ==
  [ durationUS |-> Max(duration, 1),
    staggerFraction |-> IF stagger[1] * 20 > 19 * stagger[2] THEN <<19, 20>>
                        ELSE IF stagger[1] < 0 THEN <<0, 1>> ELSE stagger,
    trailingFactor |-> Max(0, trailing),
    translationDeltaX |-> translationDeltaX,
    manualTimeUS |-> -ProgressDen ]

\* compute with the override ignored.
WallClockTime(prov, layerTimeUS) == layerTimeUS * ProgressDen

\* manualTimeUS >= 0.0 ? manualTimeUS : layerTimeUS, in eighths.
EffectiveTime(prov, layerTimeUS) ==
  IF prov.manualTimeUS >= 0 THEN prov.manualTimeUS ELSE layerTimeUS * ProgressDen

\* Every glyph starts at once.
NoGlyphDelay(totalDelay, totalGlyphs) == 0

\* totalGlyphs > 1 ? totalDelay / (totalGlyphs - 1) : 0
PerGlyphDelay(totalDelay, totalGlyphs) ==
  IF totalGlyphs > 1 THEN totalDelay \div (totalGlyphs - 1) ELSE 0

\* The body of compute from the clamp of time on, time in eighths.  Times
\* are counted in units of 1 / q microseconds, which makes them integers.
ComputeAt(prov, time8, totalGlyphs) ==
  IF totalGlyphs <= 0 THEN [ applied |-> FALSE, glyphs |-> <<>> ]
  ELSE
    LET d == prov.durationUS
        s == prov.staggerFraction
        k == Max(totalGlyphs - 1, 1)
        q == ProgressDen * s[2] * k
        time == Max(0, Min(time8, d * ProgressDen)) * s[2] * k
        baseEased == EaseOutCubicOf(IF d > 0 THEN <<time, d * q>> ELSE <<0, 1>>)
        totalDelay == d * s[1] * ProgressDen * k
        perGlyphDelay == PerGlyphDelay(totalDelay, totalGlyphs)
        remaining == d * q - totalDelay
        activeDuration == IF remaining <= q \div kEpsilonInv THEN d * q ELSE remaining
        out == [ i \in 1..totalGlyphs |->
                 LET local == time - perGlyphDelay * (i - 1)
                     t == IF local <= 0 THEN <<0, 1>>
                          ELSE IF local >= activeDuration THEN <<1, 1>>
                          ELSE <<local, activeDuration>>
                     glyphEased == EaseOutCubicOf(t)
                 IN  [ dx |-> GlyphOffset(glyphEased, baseEased, prov),
                       dy |-> 0,
                       alpha |-> glyphEased ] ]
    IN  [ applied |-> \E i \in 1..totalGlyphs :
                        \/ Abs(out[i].dx[1]) > out[i].dx[2] \div kEpsilonInv
                        \/ out[i].alpha[1] > 0,
          glyphs |-> out ]

Compute(prov, layerTimeUS, totalGlyphs) ==
  ComputeAt(prov, EffectiveTime(prov, layerTimeUS), totalGlyphs)

SlideLeftGlyphProvider_setProgress ==
  /\ glyph.ops < MaxGlyphOps
  /\ \E n \in SlideProgresses :
       glyph' = [ provider |-> [glyph.provider EXCEPT
                                  !.manualTimeUS = Clamp01(n) * glyph.provider.durationUS],
                  last |-> [ op |-> "setProgress", layerTimeUS |-> 0, totalGlyphs |-> 0,
                             out |-> [ applied |-> FALSE, glyphs |-> <<>> ] ],
                  ops |-> glyph.ops + 1 ]
  /\ UNCHANGED notGlyph

SlideLeftGlyphProvider_compute ==
  /\ glyph.ops < MaxGlyphOps
  /\ \E totalGlyphs \in GlyphCounts :
     \E layerTimeUS \in LET d == glyph.provider.durationUS
                        IN  {-1, 0, 1, d \div 2, d - 1, d, d + 1} :
       glyph' = [glyph EXCEPT
                   !.last = [ op |-> "compute", layerTimeUS |-> layerTimeUS,
                              totalGlyphs |-> totalGlyphs,
                              out |-> Compute(glyph.provider, layerTimeUS, totalGlyphs) ],
                   !.ops = @ + 1]
  /\ UNCHANGED notGlyph

InitGlyph ==
  /\ \E duration \in ProviderDurations, translationDeltaX \in {kEndX - kStartX, 8},
        stagger \in StaggerInputs, trailing \in {-1, 1} :
       glyph = [ provider |-> SlideLeftGlyphProvider_new(duration, translationDeltaX,
                                                         stagger, trailing),
                 last |-> [ op |-> "new", layerTimeUS |-> 0, totalGlyphs |-> 0,
                            out |-> [ applied |-> FALSE, glyphs |-> <<>> ] ],
                 ops |-> 0 ]
  /\ MotionIdle /\ TreeIdle /\ FrameIdle /\ T2DIdle /\ SlideIdle /\ LockIdle
  /\ RelockIdle /\ CallpathIdle /\ TimelineIdle

NextGlyph ==
  \/ SlideLeftGlyphProvider_setProgress
  \/ SlideLeftGlyphProvider_compute

SpecGlyph == InitGlyph /\ [][NextGlyph]_vars

(***************************************************************************)
(*               Claims about SlideLeftGlyphProvider                       *)
(***************************************************************************)
Computed == glyph.last.op = "compute" /\ glyph.last.totalGlyphs > 0

\* |f - target| <= 1e-3
Near(f, target) == Abs(f[1] - target * f[2]) <= f[2] \div 1000

\* C11: whenever compute is called with layerTimeUS = duration, every glyph
\* gets dx within 1e-3 of 0 and alpha within 1e-3 of 1, for any glyph count
\* and stagger fraction and whatever setProgress calls came before.
C11_SettledAtDuration ==
  (Computed /\ glyph.last.layerTimeUS = glyph.provider.durationUS) =>
    \A i \in 1..glyph.last.totalGlyphs :
      /\ Near(glyph.last.out.glyphs[i].dx, 0)
      /\ Near(glyph.last.out.glyphs[i].alpha, 1)

RelockThreads == 2   \* threads calling into the layer
MaxRelockCalls == 2  \* calls one thread makes
MaxDetaches == 1     \* detachFromTree calls in one behaviour

RelockThreadIds == 1..RelockThreads
TreeMutex == 1
Mutexes == 1..(MaxDetaches + 1)

RelockOps == {"setAlpha", "removeLayer", "addLayer"}

\* The mutexes the guard of a method locks: LockGuard(rootLocker) of the
\* object the method is called on, ScopedLock(rootLocker, child->rootLocker)
\* for addLayer.
GuardMutexes(op) ==
  CASE op = "setAlpha"    -> {relock.rootLocker}
    [] op = "removeLayer" -> {TreeMutex}
    [] OTHER              -> {TreeMutex, relock.rootLocker}

\* The guard is constructed: it copies the mutex pointers.
LockGuard_new(t, op) ==
  /\ relock.th[t].pc = "idle"
  /\ relock.th[t].calls < MaxRelockCalls
  /\ relock' = [relock EXCEPT !.th[t] =
                  [ pc |-> "waiting", op |-> op, locks |-> GuardMutexes(op),
                    calls |-> @.calls + 1 ]]
  /\ UNCHANGED notRelock

\* std::mutex::lock returns: every mutex of the guard is free.
LockGuard_lock(t) ==
  /\ relock.th[t].pc = "waiting"
  /\ \A m \in relock.th[t].locks : relock.holder[m] = 0
  /\ relock' = [relock EXCEPT
                  !.holder = [m \in Mutexes |->
                                IF m \in relock.th[t].locks THEN t ELSE @[m]],
                  !.th[t].pc = "inside"]
  /\ UNCHANGED notRelock

Unlocked(t) ==
  [m \in Mutexes |-> IF relock.holder[m] = t THEN 0 ELSE relock.holder[m]]

\* setAlpha: the body runs and the guard unlocks.
PAGLayer_setAlpha_return(t) ==
  /\ relock.th[t].pc = "inside"
  /\ relock.th[t].op = "setAlpha"
  /\ relock' = [relock EXCEPT !.holder = Unlocked(t),
                              !.th[t].pc = "idle", !.th[t].locks = {}]
  /\ UNCHANGED notRelock

\* Removing the layer from its parent: detachFromTree gives the layer a
\* mutex of its own; the guard unlocks.
PAGLayer_detachFromTree_return(t) ==
  /\ relock.th[t].pc = "inside"
  /\ relock.th[t].op = "removeLayer"
  /\ IF relock.attached /\ relock.fresh \in Mutexes
     THEN relock' = [relock EXCEPT !.rootLocker = relock.fresh,
                                   !.fresh = @ + 1,
                                   !.attached = FALSE,
                                   !.holder = Unlocked(t),
                                   !.th[t].pc = "idle", !.th[t].locks = {}]
     ELSE \* the layer is not a child: nothing is removed
          relock' = [relock EXCEPT !.holder = Unlocked(t),
                                   !.th[t].pc = "idle", !.th[t].locks = {}]
  /\ UNCHANGED notRelock

\* Adding the layer to the tree: attachToTree gives it the tree's mutex;
\* the guard unlocks.
PAGLayer_attachToTree_return(t) ==
  /\ relock.th[t].pc = "inside"
  /\ relock.th[t].op = "addLayer"
  /\ relock' = [relock EXCEPT !.rootLocker = TreeMutex,
                              !.attached = TRUE,
                              !.holder = Unlocked(t),
                              !.th[t].pc = "idle", !.th[t].locks = {}]
  /\ UNCHANGED notRelock

InitRelock ==
  /\ relock = [ rootLocker |-> TreeMutex,
                attached |-> TRUE,
                fresh |-> TreeMutex + 1,
                holder |-> [m \in Mutexes |-> 0],
                th |-> [t \in RelockThreadIds |->
                          [ pc |-> "idle", op |-> "none", locks |-> {},
                            calls |-> 0 ]] ]
  /\ MotionIdle /\ TreeIdle /\ FrameIdle /\ T2DIdle /\ SlideIdle /\ LockIdle
  /\ GlyphIdle /\ CallpathIdle /\ TimelineIdle

Relock_new == \E t \in RelockThreadIds, op \in RelockOps : LockGuard_new(t, op)
Relock_lock == \E t \in RelockThreadIds : LockGuard_lock(t)
Relock_setAlpha == \E t \in RelockThreadIds : PAGLayer_setAlpha_return(t)
Relock_detach == \E t \in RelockThreadIds : PAGLayer_detachFromTree_return(t)
Relock_attach == \E t \in RelockThreadIds : PAGLayer_attachToTree_return(t)

NextRelock ==
  \/ Relock_new
  \/ Relock_lock
  \/ Relock_setAlpha
  \/ Relock_detach
  \/ Relock_attach

SpecRelock == InitRelock /\ [][NextRelock]_vars

\* The threads inside setAlpha of the layer, past its LockGuard.
InsideAccessor ==
  { t \in RelockThreadIds :
      relock.th[t].pc = "inside" /\ relock.th[t].op = "setAlpha" }

\* C17: whatever the interleaving of locked accessors with a detach or
\* attach of the layer, at most one thread at a time is inside a locked
\* accessor of the layer.
C17_OneThreadInside == Cardinality(InsideAccessor) <= 1



(***************************************************************************)
(*   Call paths of one thread from the public methods to the helpers       *)
(*   that assume the tree lock                                             *)
(*                                                                         *)
(* A body is the sequence of what a function does that matters here: the   *)
(* item "lock" is LockGuard autoLock(rootLocker), any other item is a call *)
(* of that function.  The guard unlocks when its function returns.  Calls  *)
(* the code makes under a condition are made.                              *)
(***************************************************************************)
MaxEntryCalls == 1   \* public methods the thread calls, one after another

\* PAGLayer.cpp
LayerBody(f) ==
  CASE f = "PAGLayer::setAlpha"          -> <<"lock", "notifyModified">>
    [] f = "PAGLayer::setVisible"        -> <<"lock", "notifyModified">>
    [] f = "PAGLayer::setStartTime"      -> <<"lock", "setStartTimeInternal">>
    [] f = "PAGLayer::setCurrentTime"    -> <<"lock", "setCurrentTimeInternal">>
    [] f = "PAGLayer::setProgress"       -> <<"lock", "setProgressInternal">>
    [] f = "PAGLayer::preFrame"          -> <<"lock", "preFrameInternal">>
    [] f = "PAGLayer::nextFrame"         -> <<"lock", "nextFrameInternal">>
    [] f = "PAGLayer::getTransform2D"    -> <<"lock">>
    [] f = "PAGLayer::setTransform2D"    -> <<"lock", "notifyModified">>
    [] f = "setStartTimeInternal"        -> <<"gotoTimeAndNotifyChanged">>
    [] f = "setCurrentTimeInternal"      -> <<"gotoTimeAndNotifyChanged">>
    [] f = "setProgressInternal"         -> <<"gotoTimeAndNotifyChanged">>
    [] f = "preFrameInternal"            -> <<"gotoTimeAndNotifyChanged">>
    [] f = "nextFrameInternal"           -> <<"gotoTimeAndNotifyChanged">>
    [] f = "gotoTimeAndNotifyChanged"    -> <<"gotoTime", "notifyModified">>
    [] OTHER                             -> <<>>   \* gotoTime, notifyModified

\* PAGTextLayer.cpp
TextLayerBody(f) ==
  CASE f = "PAGTextLayer::setText"         -> <<"lock", "textDocumentForWrite">>
    [] f = "PAGTextLayer::setFontSize"     -> <<"lock", "textDocumentForWrite">>
    [] f = "PAGTextLayer::setTextDocument" -> <<"lock", "replaceTextInternal">>
    [] f = "replaceTextInternal"           -> <<"textDocumentForWrite">>
    [] OTHER                               -> <<"notifyModified">>  \* textDocumentForWrite

\* SlideLeftPreset.cpp
PresetBody(f) ==
  CASE f = "SlideLeftPreset::Make"  -> <<"PAGLayer::getTransform2D", "initialize">>
    [] f = "initialize"             -> <<"PAGLayer::setProgress", "updateTransform",
                                         "notifyModified">>
    [] f = "SlideLeftPreset::apply" -> <<"PAGLayer::setProgress", "updateTransform",
                                         "notifyModified">>
    [] f = "SlideLeftPreset::reset" -> <<"SlideLeftPreset::apply">>
    [] OTHER                        -> <<"PAGLayer::setTransform2D">>  \* updateTransform

TextLayerFunctions ==
  { "PAGTextLayer::setText", "PAGTextLayer::setFontSize",
    "PAGTextLayer::setTextDocument", "replaceTextInternal", "textDocumentForWrite" }

PresetFunctions ==
  { "SlideLeftPreset::Make", "initialize", "SlideLeftPreset::apply",
    "SlideLeftPreset::reset", "updateTransform" }

Body(f) ==
  IF f \in TextLayerFunctions THEN TextLayerBody(f)
  ELSE IF f \in PresetFunctions THEN PresetBody(f)
  ELSE LayerBody(f)

\* The public methods a caller can start from.
EntryPoints ==
  { "PAGLayer::setAlpha", "PAGLayer::setVisible", "PAGLayer::setStartTime",
    "PAGLayer::setCurrentTime", "PAGLayer::setProgress", "PAGLayer::preFrame",
    "PAGLayer::nextFrame", "PAGLayer::getTransform2D", "PAGLayer::setTransform2D",
    "PAGTextLayer::setText", "PAGTextLayer::setFontSize",
    "PAGTextLayer::setTextDocument",
    "SlideLeftPreset::Make", "SlideLeftPreset::apply", "SlideLeftPreset::reset" }

\* The helpers written for a caller that already holds the lock.
LockAssuming ==
  { "notifyModified", "gotoTime", "gotoTimeAndNotifyChanged",
    "setStartTimeInternal", "setCurrentTimeInternal", "setProgressInternal",
    "preFrameInternal", "nextFrameInternal",
    "textDocumentForWrite", "replaceTextInternal" }

Frame(f) == [fn |-> f, ip |-> 1, locked |-> FALSE]

Top == callpath.stack[Len(callpath.stack)]

\* What the running function does next, "return" at the end of its body.
NextItem ==
  IF Top.ip > Len(Body(Top.fn)) THEN "return" ELSE Body(Top.fn)[Top.ip]

\* The thread calls a public method.
Callpath_enter(f) ==
  /\ callpath.stack = <<>>
  /\ ~callpath.deadlock
  /\ callpath.calls < MaxEntryCalls
  /\ callpath' = [callpath EXCEPT !.stack = <<Frame(f)>>, !.calls = @ + 1,
                                  !.entry = f]
  /\ UNCHANGED notCallpath

\* LockGuard autoLock(rootLocker): the mutex is not recursive, a thread
\* that locks it while holding it blocks for ever.
Callpath_lock ==
  /\ callpath.stack # <<>>
  /\ ~callpath.deadlock
  /\ NextItem = "lock"
  /\ IF callpath.held = 0
     THEN callpath' = [callpath EXCEPT
                         !.held = 1,
                         !.stack[Len(callpath.stack)] =
                            [Top EXCEPT !.ip = @ + 1, !.locked = TRUE]]
     ELSE callpath' = [callpath EXCEPT !.deadlock = TRUE]
  /\ UNCHANGED notCallpath

\* The running function calls the next function of its body.
Callpath_call ==
  /\ callpath.stack # <<>>
  /\ ~callpath.deadlock
  /\ NextItem \notin {"lock", "return"}
  /\ callpath' = [callpath EXCEPT
                    !.stack = Append([@ EXCEPT ![Len(callpath.stack)].ip = @ + 1],
                                     Frame(NextItem))]
  /\ UNCHANGED notCallpath

\* The running function returns; its guard, if it has one, unlocks.
Callpath_return ==
  /\ callpath.stack # <<>>
  /\ ~callpath.deadlock
  /\ NextItem = "return"
  /\ callpath' = [callpath EXCEPT
                    !.stack = SubSeq(@, 1, Len(@) - 1),
                    !.held = IF Top.locked THEN @ - 1 ELSE @]
  /\ UNCHANGED notCallpath

InitCallpath ==
  /\ callpath = [ stack |-> <<>>, held |-> 0, deadlock |-> FALSE, calls |-> 0,
                  entry |-> "none" ]
  /\ MotionIdle /\ TreeIdle /\ FrameIdle /\ T2DIdle /\ SlideIdle /\ LockIdle
  /\ GlyphIdle /\ RelockIdle /\ TimelineIdle

Callpath_enterAny == \E f \in EntryPoints : Callpath_enter(f)

NextCallpath ==
  \/ Callpath_enterAny
  \/ Callpath_lock
  \/ Callpath_call
  \/ Callpath_return

SpecCallpath == InitCallpath /\ [][NextCallpath]_vars

\* C18: on every call path from a public method the thread holds the tree
\* lock exactly once whenever it runs a lock-assuming helper, and it never
\* locks the tree lock while it holds it.
C18_OneAcquisitionOnEveryPath ==
  /\ ~callpath.deadlock
  /\ (callpath.stack # <<>> /\ Top.fn \in LockAssuming) => callpath.held = 1



(***************************************************************************)
(*   PAGLayer.cpp: the timeline setters, gotoTimeAndNotifyChanged and      *)
(*   gotoTime                                                              *)
(*                                                                         *)
(* The layers are those of the forest above (parent, trackMatteOwner,      *)
(* trackMatteLayer, contentVersion); timeline holds their frame rate,      *)
(* startFrame, contentFrame and duration.  No parent is an empty           *)
(* composition.  LayerCache::checkFrameChanged is not part of these        *)
(* sources: a layer of timeline.statics has one static time range over     *)
(* its whole duration, so its cache never reports a difference; the cache  *)
(* of any other layer reports one whenever the frame moved.                *)
(***************************************************************************)
MaxTimeOps == 1    \* timeline calls in one behaviour
MaxSteps == 3      \* calls in one behaviour that steps one layer

TimelineTimes == {0, 40000, 100000}
SteppingTimes == {-40000, 0, 40000}
TimelineProgresses == {0, 4, ProgressDen}
TimelineDurations == {1, 3}

CheckFrameChanged(l, contentFrame, lastContentFrame) ==
  contentFrame # lastContentFrame /\ l \notin timeline.statics

\* gotoTime that leaves the track matte where it is.
GotoTimeSkipMatte(l, layerTime, frames, startFrame) ==
  LET layerFrame == TimeToFrame(layerTime, timeline.frameRate[l])
      contentFrame == layerFrame - startFrame[l]
  IN  << CheckFrameChanged(l, contentFrame, frames[l]),
         [frames EXCEPT ![l] = contentFrame] >>

\* gotoTime(layerTime) of layer l on the content frames of all layers:
\* << changed, the content frames afterwards >>.  startFrame is read
\* after the caller's assignment to it.
RECURSIVE GotoTime(_, _, _, _)
GotoTime(l, layerTime, frames, startFrame) ==
  LET matte == IF trackMatteLayer[l] # 0
               THEN GotoTime(trackMatteLayer[l], layerTime, frames, startFrame)
               ELSE <<FALSE, frames>>
      layerFrame == TimeToFrame(layerTime, timeline.frameRate[l])
      oldContentFrame == matte[2][l]
      contentFrame == layerFrame - startFrame[l]
      changed == IF ~matte[1]
                 THEN CheckFrameChanged(l, contentFrame, oldContentFrame)
                 ELSE TRUE
  IN  << changed, [matte[2] EXCEPT ![l] = contentFrame] >>

\* gotoTimeAndNotifyChanged that notifies whatever gotoTime returned.
GotoTimeAndNotifyAlways(l, changed, cv) == NotifyModifiedVersions(l, FALSE, cv)

\* The contentVersion part of gotoTimeAndNotifyChanged.
GotoTimeAndNotifyChanged(l, changed, cv) ==
  IF changed THEN NotifyModifiedVersions(l, FALSE, cv) ELSE cv

\* The call continues a run of nextFrame calls on layer l.
ContinuesRun(op, l) ==
  op = "nextFrame" /\ timeline.last.op = "nextFrame" /\ timeline.last.layer = l

\* History of the last call: run counts the consecutive nextFrame calls on
\* the layer up to this one and origin is the content frame the run began
\* at; undoes is the content frame before a nextFrame that this preFrame
\* directly follows.
TimelineRecord(op, l, went, time, changed) ==
  [ op |-> op, layer |-> l, went |-> went, time |-> time, changed |-> changed,
    framesBefore |-> timeline.contentFrame, versionsBefore |-> contentVersion,
    startBefore |-> timeline.startFrame,
    run |-> IF ContinuesRun(op, l) THEN timeline.last.run + 1
            ELSE IF op = "nextFrame" THEN 1 ELSE 0,
    origin |-> IF ContinuesRun(op, l) THEN timeline.last.origin
               ELSE IF op = "nextFrame" THEN timeline.contentFrame[l] ELSE 0,
    undoes |-> IF op = "preFrame" /\ timeline.last.op = "nextFrame"
                  /\ timeline.last.layer = l
               THEN Some(timeline.last.framesBefore[l]) ELSE Null ]

\* The call returns without reaching gotoTimeAndNotifyChanged.
EarlyReturn(op, l) ==
  /\ timeline' = [timeline EXCEPT !.last = TimelineRecord(op, l, FALSE, 0, FALSE),
                                  !.ops = @ + 1]
  /\ UNCHANGED contentVersion

\* gotoTimeAndNotifyChanged(targetTime) at the end of a call that leaves
\* the start frames as newStartFrame.
Goto(op, l, targetTime, newStartFrame) ==
  LET r == GotoTime(l, targetTime, timeline.contentFrame, newStartFrame)
  IN  /\ timeline' = [timeline EXCEPT
                        !.startFrame = newStartFrame,
                        !.contentFrame = r[2],
                        !.last = TimelineRecord(op, l, TRUE, targetTime, r[1]),
                        !.ops = @ + 1]
      /\ contentVersion' = GotoTimeAndNotifyChanged(l, r[1], contentVersion)

StartTimeInternal(l) == FrameToTime(timeline.startFrame[l], timeline.frameRate[l])

TimelineDurationInternal(l) ==
  FrameToTime(timeline.frameDuration[l], timeline.frameRate[l])

unchangedTree ==
  <<parent, trackMatteOwner, trackMatteLayer, rootLocker, stage, stageRefs, treeLast>>

\* setStartTime that goes to the content frame instead of the layer frame.
PAGLayer_setStartTimeFromContent(l, time) ==
  /\ timeline.ops < timeline.limit
  /\ LET targetStartFrame == TimeToFrame(time, timeline.frameRate[l])
     IN  IF timeline.startFrame[l] = targetStartFrame
         THEN EarlyReturn("setStartTime", l)
         ELSE Goto("setStartTime", l,
                   FrameToTime(timeline.contentFrame[l], timeline.frameRate[l]),
                   [timeline.startFrame EXCEPT ![l] = targetStartFrame])
  /\ UNCHANGED unchangedTree
  /\ UNCHANGED notTimeline

PAGLayer_setStartTime(l, time) ==
  /\ timeline.ops < timeline.limit
  /\ LET targetStartFrame == TimeToFrame(time, timeline.frameRate[l])
         layerFrame == timeline.startFrame[l] + timeline.contentFrame[l]
     IN  IF timeline.startFrame[l] = targetStartFrame
         THEN EarlyReturn("setStartTime", l)
         ELSE Goto("setStartTime", l,
                   FrameToTime(layerFrame, timeline.frameRate[l]),
                   [timeline.startFrame EXCEPT ![l] = targetStartFrame])
  /\ UNCHANGED unchangedTree
  /\ UNCHANGED notTimeline

PAGLayer_setCurrentTime(l, time) ==
  /\ timeline.ops < timeline.limit
  /\ Goto("setCurrentTime", l, time, timeline.startFrame)
  /\ UNCHANGED unchangedTree
  /\ UNCHANGED notTimeline

PAGLayer_setProgress_goto(l, n) ==
  /\ timeline.ops < timeline.limit
  /\ Goto("setProgress", l,
          StartTimeInternal(l) + ProgressToTime(n, TimelineDurationInternal(l)),
          timeline.startFrame)
  /\ UNCHANGED unchangedTree
  /\ UNCHANGED notTimeline

PAGLayer_preFrame(l) ==
  /\ timeline.ops < timeline.limit
  /\ LET totalFrames == timeline.frameDuration[l]
         previous == timeline.contentFrame[l] - 1
         targetContentFrame == IF previous < 0 THEN totalFrames - 1 ELSE previous
     IN  IF totalFrames <= 1
         THEN EarlyReturn("preFrame", l)
         ELSE Goto("preFrame", l,
                   FrameToTime(timeline.startFrame[l] + targetContentFrame,
                               timeline.frameRate[l]),
                   timeline.startFrame)
  /\ UNCHANGED unchangedTree
  /\ UNCHANGED notTimeline

\* nextFrame that does not wrap after the last frame.
PAGLayer_nextFrameNoWrap(l) ==
  /\ timeline.ops < timeline.limit
  /\ IF timeline.frameDuration[l] <= 1
     THEN EarlyReturn("nextFrame", l)
     ELSE Goto("nextFrame", l,
               FrameToTime(timeline.startFrame[l] + timeline.contentFrame[l] + 1,
                           timeline.frameRate[l]),
               timeline.startFrame)
  /\ UNCHANGED unchangedTree
  /\ UNCHANGED notTimeline

PAGLayer_nextFrame(l) ==
  /\ timeline.ops < timeline.limit
  /\ LET totalFrames == timeline.frameDuration[l]
         following == timeline.contentFrame[l] + 1
         targetContentFrame == IF following >= totalFrames THEN 0 ELSE following
     IN  IF totalFrames <= 1
         THEN EarlyReturn("nextFrame", l)
         ELSE Goto("nextFrame", l,
                   FrameToTime(timeline.startFrame[l] + targetContentFrame,
                               timeline.frameRate[l]),
                   timeline.startFrame)
  /\ UNCHANGED unchangedTree
  /\ UNCHANGED notTimeline

\* Chains: the parent or the track-matte owner of layer l is layer l + 1.
\* Frame rates, start frames, durations and static caches are those of one
\* file, or differ between odd and even layers.
TimelineStart(limit) ==
  /\ InitForest(TRUE)
  /\ stageRefs = {}
  /\ \A l \in Layers : parent[l] \in {0, l + 1} /\ trackMatteOwner[l] \in {0, l + 1}
  /\ \E oddRate \in {30, LayerFrameRate}, oddStart \in {0, 1},
        duration \in TimelineDurations,
        statics \in { {}, Layers, { l \in Layers : l % 2 = 1 } } :
       timeline =
         [ frameRate |-> [l \in Layers |-> IF l % 2 = 1 THEN oddRate ELSE LayerFrameRate],
           startFrame |-> [l \in Layers |-> IF l % 2 = 1 THEN oddStart ELSE 0],
           contentFrame |-> [l \in Layers |-> 0],
           frameDuration |-> [l \in Layers |-> duration],
           statics |-> statics,
           last |-> [ op |-> "new", layer |-> 0, went |-> FALSE, time |-> 0,
                      changed |-> FALSE,
                      framesBefore |-> [l \in Layers |-> 0],
                      versionsBefore |-> [l \in Layers |-> 0],
                      startBefore |-> [l \in Layers |-> 0],
                      run |-> 0, origin |-> 0, undoes |-> Null ],
           limit |-> limit,
           ops |-> 0 ]
  /\ MotionIdle /\ FrameIdle /\ T2DIdle /\ SlideIdle /\ LockIdle
  /\ GlyphIdle /\ RelockIdle /\ CallpathIdle

InitTimeline == TimelineStart(MaxTimeOps)

\* Layers without a parent, stepped one at a time.
InitStepping ==
  /\ TimelineStart(MaxSteps)
  /\ \A l \in Layers : parent[l] = 0

Timeline_setStartTime ==
  \E l \in Layers, time \in TimelineTimes : PAGLayer_setStartTime(l, time)
Timeline_setCurrentTime ==
  \E l \in Layers, time \in TimelineTimes : PAGLayer_setCurrentTime(l, time)
Timeline_setProgress ==
  \E l \in Layers, n \in TimelineProgresses : PAGLayer_setProgress_goto(l, n)
Timeline_preFrame == \E l \in Layers : PAGLayer_preFrame(l)
Timeline_nextFrame == \E l \in Layers : PAGLayer_nextFrame(l)

NextTimeline ==
  \/ Timeline_setStartTime
  \/ Timeline_setCurrentTime
  \/ Timeline_setProgress
  \/ Timeline_preFrame
  \/ Timeline_nextFrame

SpecTimeline == InitTimeline /\ [][NextTimeline]_vars

\* The calls of one behaviour all go to the same layer.
SameLayer(l) == timeline.last.op = "new" \/ timeline.last.layer = l

Stepping_setStartTime ==
  \E l \in Layers, time \in SteppingTimes :
    SameLayer(l) /\ PAGLayer_setStartTime(l, time)
Stepping_preFrame == \E l \in Layers : SameLayer(l) /\ PAGLayer_preFrame(l)
Stepping_nextFrame == \E l \in Layers : SameLayer(l) /\ PAGLayer_nextFrame(l)

NextStepping ==
  \/ Stepping_setStartTime
  \/ Stepping_preFrame
  \/ Stepping_nextFrame

SpecStepping == InitStepping /\ [][NextStepping]_vars

(***************************************************************************)
(*                Claims about the timeline setters                        *)
(***************************************************************************)
TimelineSetters ==
  {"setStartTime", "setProgress", "setCurrentTime", "nextFrame", "preFrame"}

\* The layers strictly above l: its parent or owner, theirs, and so on.
Above(l) == UpChain(l, NumLayers) \ {l}

\* C19: after setStartTime, setProgress, setCurrentTime, nextFrame or
\* preFrame, no contentVersion has moved when the call's gotoTime reported
\* no change (or the call returned before reaching it); when it reported a
\* change the notification went up once: every layer above the layer is
\* one version further, the layer itself and every other layer are not.
C19_NotifyOnlyOnChange ==
  timeline.last.op \in TimelineSetters =>
    IF timeline.last.went /\ timeline.last.changed
    THEN \A k \in Layers :
           contentVersion[k] =
             timeline.last.versionsBefore[k]
               + (IF k \in Above(timeline.last.layer) THEN 1 ELSE 0)
    ELSE contentVersion = timeline.last.versionsBefore

\* A setter moved layer 1, two levels below the root: layers 2 and 3 were
\* notified.
C19_Witness ==
  /\ timeline.last.op \in TimelineSetters
  /\ timeline.last.went
  /\ timeline.last.changed
  /\ timeline.last.layer = 1
  /\ Above(1) = {2, 3}
  /\ contentVersion[2] = 1
  /\ contentVersion[3] = 1
  /\ contentVersion[1] = 0

\* The track matte of l, its track matte, and so on, at most n layers.
RECURSIVE Mattes(_, _)
Mattes(l, n) ==
  IF n = 0 \/ trackMatteLayer[l] = 0 THEN {}
  ELSE {trackMatteLayer[l]} \cup Mattes(trackMatteLayer[l], n - 1)

\* contentFrame of layer k for the time the last gotoTime received.
FrameAt(k) ==
  (timeline.last.time * timeline.frameRate[k]) \div MicrosPerSecond
    - timeline.startFrame[k]

\* The cache of layer k reports a difference for the last gotoTime.
CacheDiffers(k) ==
  FrameAt(k) # timeline.last.framesBefore[k] /\ k \notin timeline.statics

\* C20: gotoTime(t) leaves contentFrame = TimeToFrame(t, frame rate) -
\* startFrame on the layer and, with their own frame rate and startFrame,
\* on its track matte (and the matte's matte), changed or not, and no
\* other layer moves; it returns true exactly when the matte's gotoTime
\* did or the layer's own cache reports a difference.
C20_GotoTime ==
  timeline.last.went =>
    LET l == timeline.last.layer
        moved == {l} \cup Mattes(l, NumLayers)
    IN  /\ \A k \in Layers :
             timeline.contentFrame[k] =
               IF k \in moved THEN FrameAt(k) ELSE timeline.last.framesBefore[k]
        /\ timeline.last.changed <=>
             ( (\E k \in Mattes(l, NumLayers) : CacheDiffers(k)) \/ CacheDiffers(l) )

\* gotoTime on a layer whose cache is static and whose track matte, at
\* another frame rate and start frame, moved: the layer's contentFrame is
\* set and the call reports the matte's change.
C20_Witness ==
  /\ timeline.last.went
  /\ timeline.last.changed
  /\ timeline.last.layer = 3
  /\ trackMatteLayer[3] = 2
  /\ timeline.statics = {1, 3}
  /\ timeline.contentFrame[3] # timeline.last.framesBefore[3]
  /\ timeline.contentFrame[2] # timeline.contentFrame[3]

\* C29: setStartTime keeps startFrame + contentFrame of the layer; when
\* the time maps to the layer's current startFrame the call changes no
\* start frame, no content frame and no content version.
C29_StartTimeKeepsLayerFrame ==
  timeline.last.op = "setStartTime" =>
    LET l == timeline.last.layer
    IN  IF timeline.last.went
        THEN /\ timeline.startFrame[l] # timeline.last.startBefore[l]
             /\ timeline.startFrame[l] + timeline.contentFrame[l]
                  = timeline.last.startBefore[l] + timeline.last.framesBefore[l]
        ELSE /\ timeline.startFrame = timeline.last.startBefore
             /\ timeline.contentFrame = timeline.last.framesBefore
             /\ contentVersion = timeline.last.versionsBefore

\* setStartTime moved a layer that started at frame 1 and stood at content
\* frame 1 to a negative start frame.
C29_Witness ==
  /\ timeline.last.op = "setStartTime"
  /\ timeline.last.went
  /\ timeline.last.startBefore[timeline.last.layer] = 1
  /\ timeline.last.framesBefore[timeline.last.layer] = 1
  /\ timeline.startFrame[timeline.last.layer] < 0
  /\ timeline.contentFrame[timeline.last.layer] > 2

\* C30: on a layer of at most one frame nextFrame and preFrame change
\* nothing; otherwise, from a content frame c in [0, total), nextFrame
\* leaves (c + 1) mod total and preFrame (c - 1) mod total, inside
\* [0, total); a preFrame right after a nextFrame is back at the frame
\* before it, and total nextFrame calls in a row are back at the first.
C30_StepsWrapAround ==
  timeline.last.op \in {"nextFrame", "preFrame"} =>
    LET l == timeline.last.layer
        total == timeline.frameDuration[l]
        c == timeline.last.framesBefore[l]
        now == timeline.contentFrame[l]
        Within(f) == 0 <= f /\ f < total
    IN  IF total <= 1
        THEN /\ ~timeline.last.went
             /\ timeline.contentFrame = timeline.last.framesBefore
             /\ timeline.startFrame = timeline.last.startBefore
             /\ contentVersion = timeline.last.versionsBefore
        ELSE /\ timeline.last.went
             /\ timeline.startFrame = timeline.last.startBefore
             /\ Within(c) =>
                  /\ Within(now)
                  /\ now = IF timeline.last.op = "nextFrame"
                           THEN (c + 1) % total
                           ELSE (c + total - 1) % total
             /\ (~IsNull(timeline.last.undoes) /\ Within(Deref(timeline.last.undoes)))
                  => now = Deref(timeline.last.undoes)
             /\ (timeline.last.run = total /\ Within(timeline.last.origin))
                  => now = timeline.last.origin

\* Three nextFrame calls in a row on a layer of three frames: the third
\* went from the last frame back to the first.
C30_Witness ==
  /\ timeline.last.op = "nextFrame"
  /\ timeline.frameDuration[timeline.last.layer] = 3
  /\ timeline.last.run = 3
  /\ timeline.last.origin = 0
  /\ timeline.last.framesBefore[timeline.last.layer] = 2
  /\ timeline.contentFrame[timeline.last.layer] = 0

====
